---- MODULE Spec2Model ----
(***************************************************************************)
(* A model of Hourai's member validation: the ValidationContext and its    *)
(* validator chain (hourai/extensions/validation/context.py, rejectors.py) *)
(* and the Validation cog (hourai/bot/extensions/validation/__init__.py):  *)
(* the join pipeline, the lockdown commands and the purge job.             *)
(***************************************************************************)
EXTENDS Integers, Sequences, FiniteSets, TLC

\* Python's None.
None == "None"

----------------------------------------------------------------------------
\* Bounds of the model.

\* Longest chain of arbitrary validators handed to validate_member.
MaxChain == 3
\* Most reasons one arbitrary validator records in one call.
MaxReasons == 2
\* The clock stops at this day.
MaxTime == 3
\* Longest lockdown a moderator asks for, in days.
MaxDuration == 2
\* Longest arbitrary membership list a purge scans.
MaxMembers == 2
\* Most reactions added to the audit messages.
MaxReactions == 2
\* Most member updates delivered for the member who joined.
MaxUpdates == 2
\* Most validation verify commands given.
MaxVerifies == 1
\* Most ban records BanStorage returns for one user.
MaxBans == 3

----------------------------------------------------------------------------
VARIABLES
    ctx,            \* the ValidationContext of the evaluation in flight
    chain,          \* the validators handed to ctx.validate_member
    pos,            \* index of the next validator of the for loop
    pc,             \* where the evaluation's task stands
    invoked,        \* log: the validators invoked, in order of invocation
    recorded,       \* log: what each invoked validator recorded
    owner_errors,   \* log: errors sent with bot.send_owner_error
    returned,       \* what validate_member returned (Nothing before it did)
    now,            \* datetime.utcnow(), in days
    lockdown,       \* per guild: the lockdown's expiration, or Nothing
    last_cmd,       \* log, per guild: the last lockdown command it was given
    config,         \* guild.config.validation of the joined guild, or Nothing
    member_roles,   \* member.roles of the member who joined
    dispatched,     \* log: the events verify_member dispatched
    modlog,         \* the messages sent to the guild's modlog channel
    msg,            \* on_join's msg: the index of its modlog message
    reactions,      \* the reactions on on_join's modlog message
    steps,          \* log: the calls on_join has completed
    guild_role,     \* guild.validation_role of the purged guild, or None
    can_kick,       \* guild.me.guild_permissions.kick_members
    p_members,      \* what guild.fetch_members yields, in order
    p_pc,           \* where purge_guild stands
    p_dry_run,      \* purge_guild's dry_run
    p_cutoff,       \* purge_guild's cutoff_time
    p_i,            \* index of the next member fetch_members yields
    p_count,        \* purge_guild's count
    p_tasks,        \* purge_guild's tasks: the _kick_member coroutines
    p_result,       \* what purge_guild returned (Nothing before it did)
    p_counted,      \* log: the members purge_guild counted
    dms,            \* log: the members the purge notice was sent to
    kicks,          \* log: the members kicked
    kick_calls,     \* log, per member: the calls of member.kick
    p_ended,        \* log: the members whose _kick_member has ended
    c_pc,           \* where validation_purge stands
    c_check_time,   \* validation_purge's check_time
    c_lookback,     \* validation_purge's lookback
    c_count,        \* validation_purge's count
    c_log,          \* log: what validation_purge sent, asked and called
    r_n,            \* the number of reactions handled
    r_payload,      \* the payload of the last reaction handled, or Nothing
    r_outcome,      \* how on_raw_reaction_add ended for it
    r_roles,        \* per target: the member's roles
    r_calls,        \* log: the calls of add_roles, kick and ban made for reactions
    r_notes,        \* log: the notes sent to guild.modlog for reactions
    r_dispatched,   \* log: the events dispatched for reactions
    joined,         \* the member of the join event as the guild holds it, or Nothing
    on_join_calls,  \* log: the number of calls of on_join
    updates,        \* log: the member updates delivered, by the pending they report
    handler,        \* the handler the evaluation in flight belongs to
    v_log           \* log: what each validation verify command did

chainVars == <<ctx, chain, pos, pc, invoked, recorded, owner_errors, returned>>
guildVars == <<now, lockdown, last_cmd, config>>
joinVars == <<member_roles, dispatched, modlog, msg, reactions, steps>>
purgeVars == <<guild_role, can_kick, p_members, p_pc, p_dry_run, p_cutoff,
               p_i, p_count, p_tasks, p_result, p_counted, dms, kicks,
               kick_calls, p_ended>>
cmdVars == <<c_pc, c_check_time, c_lookback, c_count, c_log>>
reactVars == <<r_n, r_payload, r_outcome, r_roles, r_calls, r_notes, r_dispatched>>
eventVars == <<joined, on_join_calls, updates, handler, v_log>>
vars == <<chainVars, guildVars, joinVars, purgeVars, cmdVars, reactVars, eventVars>>

----------------------------------------------------------------------------
\* Text. A str is a sequence of one-character strings.

LowerCase == <<"a", "b", "c", "d", "e", "f", "g", "h", "i", "j", "k", "l", "m",
               "n", "o", "p", "q", "r", "s", "t", "u", "v", "w", "x", "y", "z">>
UpperCase == <<"A", "B", "C", "D", "E", "F", "G", "H", "I", "J", "K", "L", "M",
               "N", "O", "P", "Q", "R", "S", "T", "U", "V", "W", "X", "Y", "Z">>

IsUpper(ch) == \E i \in 1..Len(UpperCase) : UpperCase[i] = ch

\* str.casefold, one character.
FoldChar(ch) ==
    IF IsUpper(ch)
    THEN LowerCase[CHOOSE i \in 1..Len(UpperCase) : UpperCase[i] = ch]
    ELSE ch

\* str.casefold
Casefold(s) == [i \in 1..Len(s) |-> FoldChar(s[i])]

\* Whether p occurs in s at offset k (0-based), letter case ignored.
OccursAt(p, s, k) ==
    /\ k + Len(p) <= Len(s)
    /\ \A i \in 1..Len(p) : FoldChar(s[k + i]) = FoldChar(p[i])

\* re.search of the compiled filter: the pattern occurs somewhere in s.
ReSearch(p, s) == \E k \in 0..Len(s) : OccursAt(p, s, k)

\* re.match of the compiled filter: the pattern occurs at the start of s.
ReMatch(p, s) == OccursAt(p, s, 0)

\* " ".join(val.split()), on text that is already case folded: runs of blanks
\* become one blank and the blanks at both ends go.
RECURSIVE JoinSplit(_, _, _)
JoinSplit(s, i, out) ==
    IF i > Len(s) THEN out
    ELSE IF s[i] = " "
         THEN JoinSplit(s, i + 1, out)
         ELSE JoinSplit(s, i + 1,
                        IF out # <<>> /\ i > 1 /\ s[i - 1] = " "
                        THEN out \o <<" ", s[i]>>
                        ELSE Append(out, s[i]))

\* BannedUsernameRejector._normalize
Normalize(val) == JoinSplit(Casefold(val), 1, <<>>)

\* common.split_camel_case: the words of a name, cut at blanks and before an
\* upper case letter that follows a lower case one.
RECURSIVE SplitCamelCase(_, _, _, _)
SplitCamelCase(s, i, word, out) ==
    LET flush == IF word = <<>> THEN out ELSE Append(out, word)
    IN IF i > Len(s) THEN flush
       ELSE IF s[i] = " " THEN SplitCamelCase(s, i + 1, <<>>, flush)
       ELSE IF IsUpper(s[i]) /\ word # <<>> /\ ~IsUpper(word[Len(word)])
            THEN SplitCamelCase(s, i + 1, <<s[i]>>, flush)
            ELSE SplitCamelCase(s, i + 1, Append(word, s[i]), out)

\* A set as a sequence, in a fixed order: the order a for loop visits it in.
RECURSIVE SetToSeq(_)
SetToSeq(S) ==
    IF S = {} THEN <<>>
    ELSE LET x == CHOOSE y \in S : TRUE IN <<x>> \o SetToSeq(S \ {x})

Range(s) == {s[i] : i \in 1..Len(s)}

----------------------------------------------------------------------------
\* ValidationContext (context.py)

\* An Optional value that is no string: <<>> is None, <<x>> is x.
Nothing == <<>>
Some(x) == <<x>>

\* ValidationContext.__init__: a fresh context is approved and has no reasons.
\* queries counts the storage sessions the context has opened.
NewContext(member, role) ==
    [member |-> member,
     role |-> role,
     approved |-> TRUE,
     approval_reasons |-> <<>>,
     rejection_reasons |-> <<>>,
     usernames |-> Nothing,
     queries |-> 0]

\* A plausible slip: the names are computed again when the set kept is empty
\* ("if not self._usernames").
ReadUsernamesUnlessEmpty(c) ==
    IF c.usernames = Nothing \/ c.usernames = Some({})
    THEN [c EXCEPT !.usernames =
                       Some((IF c.member.name = Nothing THEN {}
                             ELSE {c.member.name[1]}) \cup c.member.past_names),
                   !.queries = @ + 1]
    ELSE c

\* The usernames property: the first read computes the member's current and
\* stored names in a storage session, later reads return what it kept.
ReadUsernames(c) ==
    IF c.usernames = Nothing
    THEN [c EXCEPT !.usernames =
                       Some((IF c.member.name = Nothing THEN {}
                             ELSE {c.member.name[1]}) \cup c.member.past_names),
                   !.queries = @ + 1]
    ELSE c

\* A plausible slip: the approval is recorded but the verdict is left alone.
add_approval_reason_keeps_verdict(c, reason) ==
    [c EXCEPT !.approval_reasons = Append(@, reason)]

\* A plausible slip: an approval that overturns the verdict prunes the
\* rejections it overturns.
add_approval_reason_prunes(c, reason) ==
    [c EXCEPT !.approval_reasons = Append(@, reason),
              !.rejection_reasons = <<>>,
              !.approved = TRUE]

add_approval_reason(c, reason) ==
    [c EXCEPT !.approval_reasons = Append(@, reason),
              !.approved = TRUE]

add_rejection_reason(c, reason) ==
    [c EXCEPT !.rejection_reasons = Append(@, reason),
              !.approved = FALSE]

----------------------------------------------------------------------------
\* The guild and the bot's configuration the validators read.

\* NewAccountRejector's lookback, in days (timedelta(days=30)). Time is
\* counted in days.
NEW_ACCOUNT_LOOKBACK == 30
\* BannedUserRejector(min_guild_size=150)
MIN_GUILD_SIZE == 150

\* load_list: the filter lists of the bot's configuration.
load_list(name) ==
    CASE name = "user_bot_names" -> <<<<"b", "o", "t">>>>
      [] name = "user_bot_names_fullmatch" -> <<<<"s", "p", "a", "m">>>>
      [] name = "offensive_usernames" -> <<<<"s", "l", "u", "r">>>>
      [] name = "sexually_inappropriate_usernames" -> <<<<"l", "e", "w", "d">>>>

\* The members the guild already has: a moderator and a bot.
GuildMembers ==
    <<[name |-> <<"A", "d", "a", "m">>, nick |-> Some(<<"B", "o", "s", "s">>),
       moderator |-> TRUE, bot |-> FALSE],
      [name |-> <<"H", "o", "u", "r", "a", "i">>, nick |-> Nothing,
       moderator |-> FALSE, bot |-> TRUE]>>

\* The names of the users banned from the guild (guild.bans()).
GuildBannedNames == <<<<"E", "v", "i", "l", " ", "O", "n", "e">>>>

\* guild.members when the validators run: the joining member is among them.
MembersOf(c) ==
    Append(GuildMembers,
           [name |-> IF c.member.name = Nothing THEN <<>> ELSE c.member.name[1],
            nick |-> Nothing, moderator |-> FALSE, bot |-> c.member.bot])

----------------------------------------------------------------------------
\* Rejectors (rejectors.py). Each returns the context it leaves and whether it
\* raised.

Done(c) == [ctx |-> c, fault |-> FALSE]

\* NewAccountRejector.validate_member
NewAccountRejector(v, c) ==
    Done(IF c.member.created_at > now - v.lookback
         THEN add_rejection_reason(c, <<"Account created less than a month ago">>)
         ELSE c)

\* NoAvatarRejector.validate_member
NoAvatarRejector(v, c) ==
    Done(IF c.member.avatar = None
         THEN add_rejection_reason(c, <<"User has no avatar.">>)
         ELSE c)

\* DeletedAccountRejector.validate_member
DeletedAccountRejector(v, c) ==
    Done(IF c.member.deleted
         THEN add_rejection_reason(c, <<"User has been deleted.">>)
         ELSE c)

\* StringFilterRejector.__init__: match_func is r.match under full_match and
\* r.search otherwise.
MatchFunc(full_match, filter, value) ==
    IF full_match THEN ReMatch(filter, value) ELSE ReSearch(filter, value)

\* StringFilterRejector.validate_member, the inner loop over the filters
\* (self.filters is built from load_list's list).
RECURSIVE FilterValue(_, _, _, _)
FilterValue(v, c, value, j) ==
    LET filters == load_list(v.filters)
    IN IF j > Len(filters) THEN c
       ELSE FilterValue(v,
                        IF MatchFunc(v.full_match, filters[j], value)
                        THEN add_rejection_reason(
                                 c, <<v.prefix \o "Matches: ", filters[j]>>)
                        ELSE c,
                        value, j + 1)

\* StringFilterRejector.validate_member, the outer loop over the field values.
RECURSIVE FilterValues(_, _, _, _)
FilterValues(v, c, values, i) ==
    IF i > Len(values) THEN c
    ELSE FilterValues(v, FilterValue(v, c, values[i], 1), values, i + 1)

\* StringFilterRejector.validate_member with the default subfield, ctx.usernames.
StringFilterRejector(v, c) ==
    LET c1 == ReadUsernames(c)
    IN Done(FilterValues(v, c1, SetToSeq(c1.usernames[1]), 1))

\* NameMatchRejector._split_name
SplitName(v, name) ==
    SelectSeq(SplitCamelCase(name, 1, <<>>, <<>>),
              LAMBDA n : Len(n) >= v.min_match_length)

\* Appends the elements of new that seq lacks: the keys of a dict keep the
\* order they were first inserted in.
RECURSIVE AddKeys(_, _, _)
AddKeys(seq, new, i) ==
    IF i > Len(new) THEN seq
    ELSE AddKeys(IF new[i] \in Range(seq) THEN seq ELSE Append(seq, new[i]),
                 new, i + 1)

\* NameMatchRejector.validate_member, the first loop: the name parts of the
\* guild's members that pass the filter.
RECURSIVE MemberNames(_, _, _, _)
MemberNames(v, members, i, names) ==
    IF i > Len(members) THEN names
    ELSE LET m == members[i]
             passes == IF v.filter = "is_moderator" THEN m.moderator ELSE m.bot
             selected == IF v.member_selector = "nick" THEN m.nick
                         ELSE Some(m.name)
             name == IF selected = Nothing THEN <<>> ELSE selected[1]
         IN MemberNames(v, members, i + 1,
                        IF passes THEN AddKeys(names, SplitName(v, name), 1)
                        ELSE names)

\* NameMatchRejector.validate_member, the second loop.
RECURSIVE MatchNames(_, _, _, _)
MatchNames(v, c, names, i) ==
    IF i > Len(names) THEN c
    ELSE MatchNames(v,
                    IF ReSearch(names[i], c.member.name[1])
                    THEN add_rejection_reason(
                             c, <<v.prefix \o "Matches: ", names[i]>>)
                    ELSE c,
                    names, i + 1)

\* NameMatchRejector.validate_member. re.search raises a TypeError on a name
\* that is None.
NameMatchRejector(v, c) ==
    LET names == MemberNames(v, MembersOf(c), 1, <<>>)
    IN IF names # <<>> /\ c.member.name = Nothing
       THEN [ctx |-> c, fault |-> TRUE]
       ELSE Done(MatchNames(v, c, names, 1))

\* BannedUserRejector._is_valid_guild, on the guild's member count (Nothing
\* when bot.get_guild finds no guild).
IsValidGuild(v, guild) == guild # Nothing /\ guild[1] >= v.min_guild_size

\* BannedUserRejector.validate_member, the loop over the bans; the assert
\* raises an AssertionError.
RECURSIVE BanLoop(_, _, _, _, _, _)
BanLoop(v, c, bans, i, reasons, banned) ==
    IF i > Len(bans)
    THEN Done(IF reasons = {} /\ banned
              THEN add_rejection_reason(c, <<"Banned on another server.">>)
              ELSE c)
    ELSE IF ~IsValidGuild(v, bans[i].guild)
         THEN [ctx |-> c, fault |-> TRUE]
         ELSE IF bans[i].reason # None /\ bans[i].reason \notin reasons
              THEN BanLoop(v,
                           add_rejection_reason(
                               c, <<"Banned on another server. Reason: ",
                                    bans[i].reason>>),
                           bans, i + 1, reasons \cup {bans[i].reason}, TRUE)
              ELSE BanLoop(v, c, bans, i + 1, reasons, TRUE)

\* BannedUserRejector.validate_member; member.bans is what BanStorage.get_bans
\* returns for the member.
BannedUserRejector(v, c) == BanLoop(v, c, c.member.bans, 1, {}, FALSE)

\* guild.me.guild_permissions.ban_members
BOT_CAN_BAN == TRUE

\* BannedUsernameRejector.validate_member, the loop over the usernames: a
\* username that normalizes to a banned user's name is rejected once.
RECURSIVE BannedNameLoop(_, _, _)
BannedNameLoop(c, usernames, i) ==
    IF i > Len(usernames) THEN c
    ELSE LET hits == {j \in 1..Len(GuildBannedNames) :
                         Normalize(GuildBannedNames[j]) = Normalize(usernames[i])}
         IN BannedNameLoop(
                IF hits = {} THEN c
                ELSE add_rejection_reason(
                         c, <<"Exact username match with banned user: ",
                              GuildBannedNames[CHOOSE j \in hits :
                                                   \A k \in hits : k <= j]>>),
                usernames, i + 1)

\* BannedUsernameRejector.validate_member
BannedUsernameRejector(v, c) ==
    IF ~BOT_CAN_BAN THEN Done(c)
    ELSE LET c1 == ReadUsernames(c)
         IN Done(BannedNameLoop(c1, SetToSeq(c1.usernames[1]), 1))

----------------------------------------------------------------------------
\* The validators of the approvers module and the LockdownRejector, which the
\* cog's chain names.

\* NitroApprover: the member has a premium subscription.
NitroApprover(v, c) ==
    Done(IF c.member.nitro
         THEN add_approval_reason(c, <<"User has Nitro.">>)
         ELSE c)

\* DistinguishedUserApprover: Discord staff, verified or partnered.
DistinguishedUserApprover(v, c) ==
    Done(IF c.member.distinguished
         THEN add_approval_reason(c, <<"User is distinguished.">>)
         ELSE c)

\* BotApprover: the member is a bot account.
BotApprover(v, c) ==
    Done(IF c.member.bot
         THEN add_approval_reason(c, <<"User is an OAuth2 bot.">>)
         ELSE c)

\* BotOwnerApprover: the member is the owner of this bot.
BotOwnerApprover(v, c) ==
    Done(IF c.member.owner
         THEN add_approval_reason(c, <<"User is the owner of this bot.">>)
         ELSE c)

\* guild.is_locked_down: an expiration is stored and lies in the future.
IsLockedDown(guild) ==
    lockdown[guild] # Nothing /\ now < lockdown[guild][1]

LOCKDOWN_REASON == <<"Lockdown enabled.">>

\* LockdownRejector: rejects while the member's guild is locked down.
LockdownRejector(v, c) ==
    Done(IF IsLockedDown(c.member.guild)
         THEN add_rejection_reason(c, LOCKDOWN_REASON)
         ELSE c)

----------------------------------------------------------------------------
\* Validators

\* An arbitrary validator, given by what one call of its validate_member does:
\* it records n reasons, all approvals (an approver) or all rejections (a
\* rejector), and then returns or raises an Exception.
StubValidators ==
    [cls : {"Stub"}, kind : {"approver", "rejector"},
     n : 0..MaxReasons, fault : BOOLEAN]

\* Reasons are tuples of text: a message and, for a filter's match, its filter.
StubReason(i, k) == <<"validator " \o ToString(i) \o " reason " \o ToString(k)>>

RECURSIVE RunStub(_, _, _, _)
RunStub(v, c, i, k) ==
    IF k > v.n THEN c
    ELSE RunStub(v,
                 IF v.kind = "approver"
                 THEN add_approval_reason(c, StubReason(i, k))
                 ELSE add_rejection_reason(c, StubReason(i, k)),
                 i, k + 1)

\* VALIDATORS, the suspicion level rejectors.
SuspicionRejectors ==
    <<[cls |-> "NewAccountRejector", lookback |-> NEW_ACCOUNT_LOOKBACK],
      [cls |-> "NoAvatarRejector"],
      [cls |-> "DeletedAccountRejector"],
      [cls |-> "StringFilterRejector", prefix |-> "Likely user bot. ",
       full_match |-> FALSE, filters |-> "user_bot_names"],
      [cls |-> "StringFilterRejector", prefix |-> "Likely user bot. ",
       full_match |-> TRUE, filters |-> "user_bot_names_fullmatch"]>>

\* VALIDATORS, the questionable level rejectors.
QuestionableRejectors ==
    <<[cls |-> "NameMatchRejector", prefix |-> "Username matches moderator's. ",
       filter |-> "is_moderator", member_selector |-> "name",
       min_match_length |-> 4],
      [cls |-> "NameMatchRejector", prefix |-> "Username matches moderator's. ",
       filter |-> "is_moderator", member_selector |-> "nick",
       min_match_length |-> 4],
      [cls |-> "NameMatchRejector", prefix |-> "Username matches bot's. ",
       filter |-> "is_bot", member_selector |-> "name",
       min_match_length |-> 4],
      [cls |-> "NameMatchRejector", prefix |-> "Username matches bot's. ",
       filter |-> "is_bot", member_selector |-> "nick",
       min_match_length |-> 4],
      [cls |-> "StringFilterRejector", prefix |-> "Offensive username. ",
       full_match |-> FALSE, filters |-> "offensive_usernames"],
      [cls |-> "StringFilterRejector",
       prefix |-> "Sexually inapproriate username. ",
       full_match |-> FALSE, filters |-> "sexually_inappropriate_usernames"]>>

\* VALIDATORS, the malicious level rejectors.
MaliciousRejectors ==
    <<[cls |-> "BannedUserRejector", min_guild_size |-> MIN_GUILD_SIZE],
      [cls |-> "BannedUsernameRejector"]>>

\* A plausible slip in the chain's order: the Nitro approver is listed after
\* the questionable level rejectors instead of before them.
VALIDATORS_NitroAfterQuestionable ==
    SuspicionRejectors
    \o QuestionableRejectors
    \o <<[cls |-> "NitroApprover"]>>
    \o MaliciousRejectors
    \o <<[cls |-> "DistinguishedUserApprover"],
         [cls |-> "LockdownRejector"],
         [cls |-> "BotApprover"],
         [cls |-> "BotOwnerApprover"]>>

\* A plausible slip in the chain's order: the lockdown rejector is listed
\* after the override level approvers.
VALIDATORS_LockdownLast ==
    SuspicionRejectors
    \o <<[cls |-> "NitroApprover"]>>
    \o QuestionableRejectors
    \o MaliciousRejectors
    \o <<[cls |-> "DistinguishedUserApprover"],
         [cls |-> "BotApprover"],
         [cls |-> "BotOwnerApprover"],
         [cls |-> "LockdownRejector"]>>

\* A plausible slip: the lockdown rejector is left out of the chain.
VALIDATORS_NoLockdown ==
    SuspicionRejectors
    \o <<[cls |-> "NitroApprover"]>>
    \o QuestionableRejectors
    \o MaliciousRejectors
    \o <<[cls |-> "DistinguishedUserApprover"],
         [cls |-> "BotApprover"],
         [cls |-> "BotOwnerApprover"]>>

\* VALIDATORS: the cog's chain, applied from first to last. The Nitro approver
\* closes the suspicion level; the distinguished user approver and the
\* lockdown rejector close the malicious level; the override level is last.
VALIDATORS ==
    SuspicionRejectors
    \o <<[cls |-> "NitroApprover"]>>
    \o QuestionableRejectors
    \o MaliciousRejectors
    \o <<[cls |-> "DistinguishedUserApprover"],
         [cls |-> "LockdownRejector"],
         [cls |-> "BotApprover"],
         [cls |-> "BotOwnerApprover"]>>

\* One call validator.validate_member(ctx) of the validator at index i: the
\* context it leaves and whether it raised.
RunValidator(v, c, i) ==
    CASE v.cls = "Stub" -> [ctx |-> RunStub(v, c, i, 1), fault |-> v.fault]
      [] v.cls = "NewAccountRejector" -> NewAccountRejector(v, c)
      [] v.cls = "NoAvatarRejector" -> NoAvatarRejector(v, c)
      [] v.cls = "DeletedAccountRejector" -> DeletedAccountRejector(v, c)
      [] v.cls = "StringFilterRejector" -> StringFilterRejector(v, c)
      [] v.cls = "NameMatchRejector" -> NameMatchRejector(v, c)
      [] v.cls = "BannedUserRejector" -> BannedUserRejector(v, c)
      [] v.cls = "BannedUsernameRejector" -> BannedUsernameRejector(v, c)
      [] v.cls = "NitroApprover" -> NitroApprover(v, c)
      [] v.cls = "DistinguishedUserApprover" -> DistinguishedUserApprover(v, c)
      [] v.cls = "LockdownRejector" -> LockdownRejector(v, c)
      [] v.cls = "BotApprover" -> BotApprover(v, c)
      [] v.cls = "BotOwnerApprover" -> BotOwnerApprover(v, c)

----------------------------------------------------------------------------
\* ValidationContext.validate_member

\* A plausible slip: no try/except, the validator's error leaves the loop.
OnValidatorErrorReraise(errors, i) ==
    [owner_errors |-> errors, raised |-> TRUE]

\* The except clause: the error is logged and sent to the bot's owner, and the
\* loop goes on.
OnValidatorError(errors, i) ==
    [owner_errors |-> Append(errors, i), raised |-> FALSE]

\* What a validator's call recorded, read off the context before and after.
Recorded(before, after) ==
    IF Len(after.approval_reasons) > Len(before.approval_reasons)
    THEN "approve"
    ELSE IF Len(after.rejection_reasons) > Len(before.rejection_reasons)
         THEN "reject"
         ELSE "none"

\* One pass of the for loop: the await of validator.validate_member(self).
ValidateStep ==
    /\ pc = "validating"
    /\ pos <= Len(chain)
    /\ LET r == RunValidator(chain[pos], ctx, pos)
           h == IF r.fault
                THEN OnValidatorError(owner_errors, pos)
                ELSE [owner_errors |-> owner_errors, raised |-> FALSE]
       IN /\ ctx' = r.ctx
          /\ invoked' = Append(invoked, pos)
          /\ recorded' = Append(recorded, Recorded(ctx, r.ctx))
          /\ owner_errors' = h.owner_errors
          /\ pc' = IF h.raised THEN "raised" ELSE "validating"
          /\ pos' = pos + 1
    /\ UNCHANGED <<chain, returned, guildVars, joinVars, purgeVars, cmdVars, reactVars, eventVars>>

\* The loop is over: return self.approved.
ValidateReturn ==
    /\ pc = "validating"
    /\ pos > Len(chain)
    /\ returned' = Some(ctx.approved)
    /\ pc' = "validated"
    /\ steps' = Append(steps, "validate_member")
    /\ UNCHANGED <<ctx, chain, pos, invoked, recorded, owner_errors, guildVars,
                   member_roles, dispatched, modlog, msg, reactions, purgeVars, cmdVars, reactVars, eventVars>>

----------------------------------------------------------------------------
\* validate_member over every chain of arbitrary validators.

RECURSIVE SeqsUpTo(_, _)
SeqsUpTo(S, n) ==
    IF n = 0 THEN {<<>>}
    ELSE LET shorter == SeqsUpTo(S, n - 1)
         IN shorter \cup {Append(s, x) : s \in shorter, x \in S}

\* The guilds the bot serves.
Guilds == {"g1", "g2"}

\* A member with nothing for a validator to notice.
AnyMember ==
    [id |-> 7, guild |-> "g1", name |-> Some(<<"n", "e", "o">>),
     past_names |-> {}, created_at |-> -NEW_ACCOUNT_LOOKBACK,
     avatar |-> "avatar", deleted |-> FALSE, nitro |-> FALSE,
     distinguished |-> FALSE, bot |-> FALSE, owner |-> FALSE,
     bans |-> <<>>, roles |-> {}, pending |-> FALSE]

\* No purge has run.
PurgeIdle ==
    /\ guild_role = None
    /\ can_kick = FALSE
    /\ p_members = <<>>
    /\ p_pc = "idle"
    /\ p_dry_run = TRUE
    /\ p_cutoff = 0
    /\ p_i = 1
    /\ p_count = 0
    /\ p_tasks = <<>>
    /\ p_result = Nothing
    /\ p_counted = <<>>
    /\ dms = {}
    /\ kicks = {}
    /\ kick_calls = <<>>
    /\ p_ended = {}

\* No purge command has been given.
CmdIdle ==
    /\ c_pc = "idle"
    /\ c_check_time = 0
    /\ c_lookback = 0
    /\ c_count = Nothing
    /\ c_log = <<>>

\* No reaction has been handled.
ReactIdle ==
    /\ r_n = 0
    /\ r_payload = Nothing
    /\ r_outcome = "none"
    /\ r_roles = <<>>
    /\ r_calls = <<>>
    /\ r_notes = <<>>
    /\ r_dispatched = <<>>

\* No member has joined and no verify command has been given.
EventIdle ==
    /\ joined = Nothing
    /\ on_join_calls = 0
    /\ updates = <<>>
    /\ handler = "none"
    /\ v_log = <<>>

\* What the join pipeline has not touched.
JoinIdle ==
    /\ config = Nothing
    /\ member_roles = {}
    /\ dispatched = <<>>
    /\ modlog = <<>>
    /\ msg = Nothing
    /\ reactions = <<>>
    /\ steps = <<>>

Init ==
    /\ chain \in SeqsUpTo(StubValidators, MaxChain)
    /\ ctx = NewContext(AnyMember, None)
    /\ pos = 1
    /\ pc = "validating"
    /\ invoked = <<>>
    /\ recorded = <<>>
    /\ owner_errors = <<>>
    /\ returned = Nothing
    /\ now = 0
    /\ lockdown = [g \in Guilds |-> Nothing]
    /\ last_cmd = [g \in Guilds |-> Nothing]
    /\ JoinIdle
    /\ PurgeIdle
    /\ CmdIdle
    /\ ReactIdle
    /\ EventIdle

Next ==
    \/ ValidateStep
    \/ ValidateReturn

Spec == Init /\ [][Next]_vars

----------------------------------------------------------------------------
\* Claims about validate_member over arbitrary chains (under Spec).

IsPrefix(s, t) == Len(s) <= Len(t) /\ SubSeq(t, 1, Len(s)) = s

Indices(n) == [i \in 1..n |-> i]

\* The last invoked validator that recorded a reason, 0 when none did.
LastRecorder ==
    LET S == {i \in 1..Len(recorded) : recorded[i] # "none"}
    IN IF S = {} THEN 0 ELSE CHOOSE i \in S : \A j \in S : j <= i

\* C1: after each validator has run, and when validate_member has returned,
\* ctx.approved is the polarity of the last validator in chain order that
\* recorded a reason (TRUE for an approval, FALSE for a rejection), and TRUE
\* when no validator recorded one; validate_member returns that verdict.
C1_ApprovedIsLastPolarity ==
    /\ ctx.approved = (LastRecorder = 0 \/ recorded[LastRecorder] = "approve")
    /\ pc = "validated" => returned = Some(ctx.approved)

\* C1's case: a rejection, overturned by a later approver, with a validator
\* that records nothing last, and the call has returned TRUE.
C1_Witness ==
    /\ pc = "validated"
    /\ recorded = <<"reject", "approve", "none">>
    /\ returned = Some(TRUE)

\* C2: at every step each reason list's previous value is a prefix of its new
\* value: no reason is removed or reordered, also when an approver overturns
\* an earlier rejection.
C2_ReasonsAppendOnly ==
    [][/\ IsPrefix(ctx.approval_reasons, ctx'.approval_reasons)
       /\ IsPrefix(ctx.rejection_reasons, ctx'.rejection_reasons)]_vars

\* C2's case: an approver has overturned two rejections, and both are kept.
C2_Witness ==
    /\ recorded = <<"reject", "reject", "approve">>
    /\ ctx.approved
    /\ Len(ctx.rejection_reasons) >= 2
    /\ Len(ctx.approval_reasons) >= 1

\* The validators of the chain that raise, among the first k, in chain order.
Faulting(k) == SelectSeq(Indices(k), LAMBDA i : chain[i].fault)

\* C3: a validator that raises does not end the loop: the validators are
\* invoked once each in chain order, every error is sent to the owner, and
\* validate_member returns the final ctx.approved.
C3_FaultsDoNotAbort ==
    /\ pc # "raised"
    /\ invoked = Indices(pos - 1)
    /\ owner_errors = Faulting(pos - 1)
    /\ pc = "validated" =>
          /\ invoked = Indices(Len(chain))
          /\ returned = Some(ctx.approved)

\* C3's case: the first and the last validator of a chain of three raised,
\* the first after recording a rejection, and the call returned.
C3_Witness ==
    /\ pc = "validated"
    /\ Len(chain) = 3
    /\ chain[1].fault /\ chain[1].n > 0 /\ ~chain[2].fault /\ chain[3].fault
    /\ owner_errors = <<1, 3>>
    /\ invoked = <<1, 2, 3>>

----------------------------------------------------------------------------
\* The join pipeline: Validation.on_member_join, on_join and verify_member.

APPROVE_REACTION == "approve"
KICK_REACTION == "kick"
BAN_REACTION == "ban"
MODLOG_REACTIONS == <<APPROVE_REACTION, KICK_REACTION, BAN_REACTION>>

\* A plausible slip: the role is given whatever the verdict.
ShouldAddRoleAnyVerdict(c, roles) ==
    c.role # None /\ c.role \notin roles

\* ValidationContext.apply_role, its condition.
ShouldAddRole(c, roles) ==
    c.approved /\ c.role # None /\ c.role \notin roles

\* ValidationContext.send_modlog_message, the message it composes; the embed's
\* footer carries the member's id.
ModlogMessage(c) ==
    [verified |-> c.approved,
     approval_reasons |-> c.approval_reasons,
     rejection_reasons |-> c.rejection_reasons,
     footer |-> c.member.id]

\* No evaluation is in flight: the model follows one evaluation at a time.
NoEvaluation == pc \in {"idle", "done", "raised"}

\* ctx = ValidationContext(bot, member, config) and the call of
\* ctx.validate_member(VALIDATORS), for the handler who: the context is new
\* (ValidationContext.__init__ resolves the role) and so are the logs kept of
\* the evaluation.
Evaluate(member, who) ==
    /\ handler' = who
    /\ ctx' = NewContext(member, config[1].role_id)
    /\ chain' = VALIDATORS
    /\ pos' = 1
    /\ pc' = "validating"
    /\ invoked' = <<>>
    /\ recorded' = <<>>
    /\ owner_errors' = <<>>
    /\ returned' = Nothing
    /\ steps' = <<>>

\* A plausible slip: on_join looks for a config but not at its enabled flag.
OnJoinIgnoresEnabled(member) ==
    /\ on_join_calls' = on_join_calls + 1
    /\ IF config = Nothing
       THEN /\ pc' = "done"
            /\ UNCHANGED <<ctx, chain, pos, invoked, recorded, owner_errors,
                           returned, steps, handler>>
       ELSE Evaluate(member, "on_join")

\* on_join up to the call of validate_member: nothing is done in a guild
\* without enabled validation.
OnJoin(member) ==
    /\ on_join_calls' = on_join_calls + 1
    /\ IF config = Nothing \/ ~config[1].enabled
       THEN /\ pc' = "done"
            /\ UNCHANGED <<ctx, chain, pos, invoked, recorded, owner_errors,
                           returned, steps, handler>>
       ELSE Evaluate(member, "on_join")

\* A plausible slip: on_member_join does not look at member.pending.
ShouldEvaluateOnJoinAlways(member) == TRUE

\* on_member_join, its condition: the member is not pending.
ShouldEvaluateOnJoin(member) == ~member.pending

\* on_member_join: a member has joined the guild; on_join is awaited unless
\* the member is pending.
OnMemberJoin(member) ==
    /\ joined = Nothing
    /\ NoEvaluation
    /\ joined' = Some(member)
    /\ member_roles' = member.roles
    /\ IF ShouldEvaluateOnJoin(member)
       THEN OnJoin(member)
       ELSE UNCHANGED <<chainVars, steps, on_join_calls, handler>>
    /\ UNCHANGED <<guildVars, dispatched, modlog, msg, reactions, purgeVars,
                   cmdVars, reactVars, updates, v_log>>

\* on_member_update, its condition: pending went from true to false.
ShouldEvaluateOnUpdate(before, after) == before.pending /\ ~after.pending

\* on_member_update: Discord reports a change of the member who joined.
\* pending is as it was or, once the member has passed the guild's screening,
\* false; it never becomes true again.
OnMemberUpdate(pending) ==
    /\ joined # Nothing
    /\ Len(updates) < MaxUpdates
    /\ pending => joined[1].pending
    /\ LET before == joined[1]
           after == [before EXCEPT !.pending = pending]
       IN /\ joined' = Some(after)
          /\ updates' = Append(updates, pending)
          /\ IF ShouldEvaluateOnUpdate(before, after)
             THEN NoEvaluation /\ OnJoin(after)
             ELSE UNCHANGED <<chainVars, steps, on_join_calls, handler>>
    /\ UNCHANGED <<guildVars, member_roles, dispatched, modlog, msg, reactions,
                   purgeVars, cmdVars, reactVars, v_log>>

\* validation_verify up to the call of validate_member: the command replies
\* that validation has not been set up when it is not enabled; config.enabled
\* raises an AttributeError when there is no config at all.
ValidationVerify(member) ==
    /\ NoEvaluation
    /\ Len(v_log) < MaxVerifies
    /\ IF config = Nothing
       THEN /\ v_log' = Append(v_log, "raised")
            /\ UNCHANGED <<chainVars, steps, handler>>
       ELSE IF ~config[1].enabled
            THEN /\ v_log' = Append(v_log, "not set up")
                 /\ UNCHANGED <<chainVars, steps, handler>>
            ELSE /\ v_log' = Append(v_log, "validate_member")
                 /\ Evaluate(member, "validation_verify")
    /\ UNCHANGED <<guildVars, member_roles, dispatched, modlog, msg, reactions,
                   purgeVars, cmdVars, reactVars, joined, on_join_calls, updates>>

\* validation_verify after validate_member: ValidationContext has no
\* send_log_message, the call raises an AttributeError.
SendLogMessage ==
    /\ pc = "validated"
    /\ handler = "validation_verify"
    /\ pc' = "raised"
    /\ UNCHANGED <<ctx, chain, pos, invoked, recorded, owner_errors, returned,
                   guildVars, joinVars, purgeVars, cmdVars, reactVars, joined,
                   on_join_calls, updates, handler, v_log>>

\* verify_member: apply_role, then the verify_accept or verify_reject event.
\* member.add_roles may raise discord.Forbidden, which leaves on_join.
VerifyMember ==
    /\ pc = "validated"
    /\ handler = "on_join"
    /\ \E forbidden \in BOOLEAN :
          IF ShouldAddRole(ctx, member_roles) /\ forbidden
          THEN /\ pc' = "raised"
               /\ UNCHANGED <<member_roles, dispatched, steps>>
          ELSE /\ member_roles' = IF ShouldAddRole(ctx, member_roles)
                                  THEN member_roles \cup {ctx.role}
                                  ELSE member_roles
               /\ dispatched' = Append(dispatched,
                                       IF ctx.approved THEN "verify_accept"
                                       ELSE "verify_reject")
               /\ steps' = Append(steps, "verify_member")
               /\ pc' = "verified"
    /\ UNCHANGED <<ctx, chain, pos, invoked, recorded, owner_errors, returned,
                   guildVars, modlog, msg, reactions, purgeVars, cmdVars, reactVars, eventVars>>

\* msg = await ctx.send_modlog_message(): the message is sent to the guild's
\* modlog channel, or there is no such channel and msg is None.
SendModlogMessage ==
    /\ pc = "verified"
    /\ \E channel \in BOOLEAN :
          IF channel
          THEN /\ modlog' = Append(modlog, ModlogMessage(ctx))
               /\ msg' = Some(Len(modlog) + 1)
          ELSE UNCHANGED <<modlog, msg>>
    /\ steps' = Append(steps, "send_modlog_message")
    /\ pc' = "logged"
    /\ UNCHANGED <<ctx, chain, pos, invoked, recorded, owner_errors, returned,
                   guildVars, member_roles, dispatched, reactions, purgeVars, cmdVars, reactVars, eventVars>>

\* The loop over MODLOG_REACTIONS: the first k reactions are added before
\* add_reaction raises Forbidden (k = 3: none did); on msg = None the
\* AttributeError is swallowed at once.
AddReactions ==
    /\ pc = "logged"
    /\ \E k \in 0..Len(MODLOG_REACTIONS) :
          reactions' = IF msg = Nothing THEN <<>>
                       ELSE SubSeq(MODLOG_REACTIONS, 1, k)
    /\ steps' = Append(steps, "add_reaction")
    /\ pc' = "done"
    /\ UNCHANGED <<ctx, chain, pos, invoked, recorded, owner_errors, returned,
                   guildVars, member_roles, dispatched, modlog, msg, purgeVars, cmdVars, reactVars, eventVars>>

\* What the rejectors may find on an account: nothing, one thing each, the
\* three things of a new account with no avatar and an offensive name, and
\* everything at once.
JoinProfiles ==
    LET plain == [name |-> <<"n", "e", "o">>, past_names |-> {},
                  created_at |-> -NEW_ACCOUNT_LOOKBACK, avatar |-> "avatar",
                  deleted |-> FALSE, bans |-> <<>>]
        raid == <<[reason |-> "raid", guild |-> Some(MIN_GUILD_SIZE)]>>
        evil == {<<"e", "v", "i", "l", " ", " ", "o", "n", "e">>}
    IN {plain,
        [plain EXCEPT !.created_at = 0],
        [plain EXCEPT !.avatar = None],
        [plain EXCEPT !.deleted = TRUE],
        [plain EXCEPT !.name = <<"x", "B", "o", "t">>],
        [plain EXCEPT !.name = <<"a", "d", "a", "m", "s">>],
        [plain EXCEPT !.name = <<"S", "l", "u", "r", "p">>],
        [plain EXCEPT !.bans = raid],
        [plain EXCEPT !.past_names = evil],
        [plain EXCEPT !.created_at = 0, !.avatar = None,
                      !.name = <<"S", "l", "u", "r", "p">>],
        [plain EXCEPT !.created_at = 0, !.avatar = None, !.deleted = TRUE,
                      !.name = <<"S", "l", "u", "r", "p">>, !.bans = raid,
                      !.past_names = evil]}

\* The accounts that join: each profile with each combination of what the
\* approvers look at, with and without the role.
JoinMembers ==
    {[id |-> 7, guild |-> "g1", name |-> Some(p.name),
      past_names |-> p.past_names, created_at |-> p.created_at,
      avatar |-> p.avatar, deleted |-> p.deleted, nitro |-> f.nitro,
      distinguished |-> f.distinguished, bot |-> f.bot, owner |-> f.owner,
      bans |-> p.bans, roles |-> f.roles, pending |-> FALSE] :
        p \in JoinProfiles,
        f \in [nitro : BOOLEAN, distinguished : BOOLEAN, bot : BOOLEAN,
               owner : BOOLEAN, roles : {{}, {"verified"}}]}

\* A guild with no validation config, with validation disabled, and with
\* validation enabled, with and without a role.
JoinConfigs ==
    {Nothing,
     Some([enabled |-> FALSE, role_id |-> "verified"]),
     Some([enabled |-> TRUE, role_id |-> None]),
     Some([enabled |-> TRUE, role_id |-> "verified"])}

\* The guild before a join: no lockdown, one that has expired, one in force.
InitJoin ==
    /\ pc = "idle"
    /\ ctx = Nothing
    /\ chain = <<>>
    /\ pos = 1
    /\ invoked = <<>>
    /\ recorded = <<>>
    /\ owner_errors = <<>>
    /\ returned = Nothing
    /\ now = 0
    /\ \E expiration \in {Nothing, Some(0), Some(1)} :
          lockdown = [g \in Guilds |-> IF g = "g1" THEN expiration ELSE Nothing]
    /\ last_cmd = [g \in Guilds |-> Nothing]
    /\ config \in JoinConfigs
    /\ member_roles = {}
    /\ dispatched = <<>>
    /\ modlog = <<>>
    /\ msg = Nothing
    /\ reactions = <<>>
    /\ steps = <<>>
    /\ PurgeIdle
    /\ CmdIdle
    /\ ReactIdle
    /\ EventIdle

NextJoin ==
    \/ \E member \in JoinMembers : OnMemberJoin(member)
    \/ ValidateStep
    \/ ValidateReturn
    \/ VerifyMember
    \/ SendModlogMessage
    \/ AddReactions

SpecJoin == InitJoin /\ [][NextJoin]_vars

----------------------------------------------------------------------------
\* Claims about the cog's chain and the join pipeline (under SpecJoin).

\* validate_member has returned for the member who joined.
Evaluated == chain # <<>> /\ returned # Nothing

\* The account of C4: created just now, no avatar, a name the offensive
\* usernames filter finds, and Nitro.
NewOffensiveNitro ==
    /\ ctx.member.created_at = now
    /\ ctx.member.avatar = None
    /\ \E j \in 1..Len(load_list("offensive_usernames")) :
          ReSearch(load_list("offensive_usernames")[j], ctx.member.name[1])
    /\ ctx.member.nitro

\* C4 as claimed: the new, offensive, avatarless account with Nitro ends
\* approved, its three rejections kept.
C4_AsClaimed ==
    (Evaluated /\ NewOffensiveNitro) =>
        (ctx.approved /\ Len(ctx.rejection_reasons) >= 3)

\* C4, amended: the offensive username rejector runs after the Nitro approver,
\* so that account ends rejected, unless a later approver speaks after the
\* last rejector (the account is a bot, is the bot's owner, or is
\* distinguished in a guild that is not locked down); the Nitro approval and
\* the three rejections or more stay recorded either way.
C4_NitroDoesNotOverrideOffensive ==
    (Evaluated /\ NewOffensiveNitro) =>
        /\ Len(ctx.rejection_reasons) >= 3
        /\ <<"User has Nitro.">> \in Range(ctx.approval_reasons)
        /\ ctx.approved <=>
              \/ ctx.member.bot
              \/ ctx.member.owner
              \/ ctx.member.distinguished /\ ~IsLockedDown(ctx.member.guild)

\* C4's case: that account, with nothing else to approve it, has been
\* evaluated and is rejected with its Nitro approval on record.
C4_Witness ==
    /\ Evaluated /\ NewOffensiveNitro
    /\ ~ctx.member.bot /\ ~ctx.member.owner /\ ~ctx.member.distinguished
    /\ ~ctx.approved
    /\ Len(ctx.approval_reasons) = 1
    /\ Len(ctx.rejection_reasons) = 3

\* C5 as claimed: a distinguished member, a bot and the bot's owner end
\* approved whatever the rejectors recorded.
C5_AsClaimed ==
    (Evaluated /\ (ctx.member.distinguished \/ ctx.member.bot
                   \/ ctx.member.owner)) => ctx.approved

\* C5, amended: the bot and bot owner approvers come last, so a bot and the
\* bot's owner end approved whatever the rejectors recorded, the lockdown
\* rejector included; the distinguished user approver comes before the
\* lockdown rejector, so a distinguished member ends approved whatever the
\* earlier rejectors recorded only in a guild that is not locked down, and
\* ends rejected in a locked down guild unless it is a bot or the owner.
C5_OverrideApproversWin ==
    Evaluated =>
        /\ (ctx.member.bot \/ ctx.member.owner) => ctx.approved
        /\ (ctx.member.distinguished /\ ~IsLockedDown(ctx.member.guild))
              => ctx.approved
        /\ (/\ ctx.member.distinguished /\ IsLockedDown(ctx.member.guild)
            /\ ~ctx.member.bot /\ ~ctx.member.owner) => ~ctx.approved

\* C5's case: a bot that every rejector rejected, the lockdown rejector
\* included, ends approved.
C5_Witness ==
    /\ Evaluated
    /\ ctx.member.bot /\ ~ctx.member.owner
    /\ IsLockedDown(ctx.member.guild)
    /\ LOCKDOWN_REASON \in Range(ctx.rejection_reasons)
    /\ Len(ctx.rejection_reasons) >= 6
    /\ ctx.approved

\* The role was given by on_join.
RoleGranted == chain # <<>> /\ member_roles # ctx.member.roles

OnJoinSteps ==
    <<"validate_member", "verify_member", "send_modlog_message", "add_reaction">>

\* C6: on_join's steps come in this order: every validator of the chain has
\* run when validate_member returns, then verify_member applies the role,
\* then the modlog message is sent, then the reactions are added; and the role
\* is given only when the final verdict is approved.
C6_JoinOrder ==
    /\ IsPrefix(steps, OnJoinSteps)
    /\ steps # <<>> => (chain = VALIDATORS /\ invoked = Indices(Len(VALIDATORS)))
    /\ RoleGranted =>
          /\ Len(steps) >= 2
          /\ returned = Some(TRUE)
          /\ ctx.approved
          /\ member_roles = ctx.member.roles \cup {ctx.role}
    /\ modlog # <<>> =>
          /\ Len(steps) >= 3
          /\ modlog = <<ModlogMessage(ctx)>>
    /\ reactions # <<>> => (Len(steps) = 4 /\ modlog # <<>>)

\* C6's case: a join whose member was approved and given the role, whose
\* modlog message was sent and has its three reactions.
C6_Witness ==
    /\ pc = "done"
    /\ RoleGranted
    /\ Len(modlog) = 1
    /\ reactions = MODLOG_REACTIONS
    /\ steps = OnJoinSteps

\* C6's other case: a rejected member's join ran to its end without the role.
C6_WitnessRejected ==
    /\ pc = "done"
    /\ steps = OnJoinSteps
    /\ ~ctx.approved
    /\ ctx.role # None
    /\ member_roles = {}

----------------------------------------------------------------------------
\* The lockdown commands: Validation.validation_lockdown and
\* validation_lockdown_lift, on the guild's set_lockdown and clear_lockdown.

\* A plausible slip: the duration is stored as if it were the expiration.
LockdownExpirationNoClock(time) == time

\* validation_lockdown: expiration = datetime.utcnow() + time
LockdownExpiration(time) == now + time

\* guild.set_lockdown(expiration): the guild keeps the expiration, in place of
\* any it had.
set_lockdown(guild, expiration) ==
    [lockdown EXCEPT ![guild] = Some(expiration)]

\* guild.clear_lockdown(): the guild keeps no expiration.
clear_lockdown(guild) ==
    [lockdown EXCEPT ![guild] = Nothing]

\* ~validation lockdown <time>, by a moderator of the guild.
ValidationLockdown(guild, time) ==
    /\ pc = "idle"
    /\ lockdown' = set_lockdown(guild, LockdownExpiration(time))
    /\ last_cmd' = [last_cmd EXCEPT ![guild] =
                        Some([op |-> "lockdown", at |-> now, time |-> time])]
    /\ UNCHANGED <<chainVars, now, config, joinVars, purgeVars, cmdVars, reactVars, eventVars>>

\* ~validation lockdown lift, by a moderator of the guild.
ValidationLockdownLift(guild) ==
    /\ pc = "idle"
    /\ lockdown' = clear_lockdown(guild)
    /\ last_cmd' = [last_cmd EXCEPT ![guild] = Some([op |-> "lift"])]
    /\ UNCHANGED <<chainVars, now, config, joinVars, purgeVars, cmdVars, reactVars, eventVars>>

\* A day passes.
Tick ==
    /\ pc = "idle"
    /\ now < MaxTime
    /\ now' = now + 1
    /\ UNCHANGED <<chainVars, lockdown, last_cmd, config, joinVars, purgeVars, cmdVars, reactVars, eventVars>>

\* The members that join a guild under lockdown commands: a plain account, a
\* bot and a distinguished account, in either guild.
LockdownMembers ==
    {[AnyMember EXCEPT !.guild = g, !.bot = f[1], !.distinguished = f[2]] :
        g \in Guilds,
        f \in {<<FALSE, FALSE>>, <<TRUE, FALSE>>, <<FALSE, TRUE>>}}

\* No lockdown command was given yet; validation is enabled in the guilds. The
\* commands and the clock run until a member joins and is evaluated.
InitLockdown ==
    /\ pc = "idle"
    /\ ctx = Nothing
    /\ chain = <<>>
    /\ pos = 1
    /\ invoked = <<>>
    /\ recorded = <<>>
    /\ owner_errors = <<>>
    /\ returned = Nothing
    /\ now = 0
    /\ lockdown = [g \in Guilds |-> Nothing]
    /\ last_cmd = [g \in Guilds |-> Nothing]
    /\ config = Some([enabled |-> TRUE, role_id |-> "verified"])
    /\ member_roles = {}
    /\ dispatched = <<>>
    /\ modlog = <<>>
    /\ msg = Nothing
    /\ reactions = <<>>
    /\ steps = <<>>
    /\ PurgeIdle
    /\ CmdIdle
    /\ ReactIdle
    /\ EventIdle

NextLockdown ==
    \/ \E guild \in Guilds, time \in 1..MaxDuration :
          ValidationLockdown(guild, time)
    \/ \E guild \in Guilds : ValidationLockdownLift(guild)
    \/ Tick
    \/ \E member \in LockdownMembers : OnMemberJoin(member)
    \/ ValidateStep
    \/ ValidateReturn

SpecLockdown == InitLockdown /\ [][NextLockdown]_vars

----------------------------------------------------------------------------
\* Claims about the lockdown (under SpecLockdown).

\* The last lockdown command the guild was given was a lockdown, not a lift.
LastWasLockdown(guild) ==
    last_cmd[guild] # Nothing /\ last_cmd[guild][1].op = "lockdown"

\* The expiration the guild's last lockdown command announced.
Announced(guild) == last_cmd[guild][1].at + last_cmd[guild][1].time

\* C7: once a lockdown was set on a guild, and not lifted, an evaluation in
\* that guild records the lockdown rejection when it runs before the
\* expiration, and records none when it runs at or after the expiration; no
\* lift is needed for that.
C7_LockdownUntilExpiry ==
    (Evaluated /\ LastWasLockdown(ctx.member.guild)) =>
        (LOCKDOWN_REASON \in Range(ctx.rejection_reasons)
            <=> now < Announced(ctx.member.guild))

\* C7's case: a member was evaluated, without the lockdown rejection, in a
\* guild whose lockdown had expired and was never lifted.
C7_Witness ==
    /\ Evaluated
    /\ LastWasLockdown(ctx.member.guild)
    /\ now >= Announced(ctx.member.guild)
    /\ ctx.rejection_reasons = <<>>

\* C7's other case: a member evaluated before the expiration is rejected.
C7_WitnessActive ==
    /\ Evaluated
    /\ LastWasLockdown(ctx.member.guild)
    /\ now > last_cmd[ctx.member.guild][1].at
    /\ now < Announced(ctx.member.guild)
    /\ ctx.rejection_reasons = <<LOCKDOWN_REASON>>
    /\ ~ctx.approved

\* C8: whatever lockdown commands the guilds were given, what a guild stores
\* is decided by its own last command alone: nothing before any command and
\* after a lift, the last lockdown's expiration otherwise; and the guild is
\* locked down exactly when that stored expiration lies in the future.
C8_LockdownState ==
    \A guild \in Guilds :
        /\ lockdown[guild] =
              IF LastWasLockdown(guild) THEN Some(Announced(guild)) ELSE Nothing
        /\ IsLockedDown(guild) <=>
              (LastWasLockdown(guild) /\ now < Announced(guild))

\* C8's case: a guild was lifted before its lockdown's expiration would have
\* passed, while the other guild is still locked down by a lockdown that
\* replaced an earlier one.
C8_Witness ==
    /\ last_cmd["g1"] = Some([op |-> "lift"])
    /\ ~IsLockedDown("g1")
    /\ now = 1
    /\ last_cmd["g2"] = Some([op |-> "lockdown", at |-> 1, time |-> 1])
    /\ IsLockedDown("g2")

----------------------------------------------------------------------------
\* The purge: Validation.purge_guild.

\* if len(tasks) > 5: the coroutines are gathered once there are more.
GATHER_THRESHOLD == 5

\* A plausible slip: the booster check is left out.
is_kickable_boosters_too(member, role, cutoff_time) ==
    LET is_new == /\ member.joined_at # Nothing
                  /\ member.joined_at[1] >= cutoff_time
    IN ~(role \in member.roles \/ is_new \/ member.bot)

\* purge_guild._is_kickable
is_kickable(member, role, cutoff_time) ==
    LET is_new == /\ member.joined_at # Nothing
                  /\ member.joined_at[1] >= cutoff_time
        checks == <<role \in member.roles,              \* Is verified
                    is_new,                             \* Is too new
                    member.bot,                         \* Is a bot
                    member.premium_since # Nothing>>    \* Is a booster
    IN ~(\E k \in 1..Len(checks) : checks[k])

\* A plausible slip: the coroutine is made in a dry run too.
AppendTaskAlways(tasks, dry_run, i) ==
    Append(tasks, [member |-> i, at |-> "created"])

\* if not dry_run: tasks.append(_kick_member(member))
AppendTask(tasks, dry_run, i) ==
    IF ~dry_run THEN Append(tasks, [member |-> i, at |-> "created"])
    ELSE tasks

\* A plausible slip: the coroutines are never gathered inside the loop.
ShouldGatherNever(tasks) == FALSE

\* if len(tasks) > 5
ShouldGather(tasks) == Len(tasks) > GATHER_THRESHOLD

\* utils.send_dm: the notice is delivered ("open"), or Discord's refusal
\* (discord.Forbidden) or another error is raised to the caller.
send_dm(member) == member.dm

\* asyncio.gather(*tasks) schedules every coroutine of tasks.
Scheduled(tasks) == [k \in 1..Len(tasks) |-> [tasks[k] EXCEPT !.at = "send_dm"]]

\* purge_guild up to its loop: it returns None at once in a guild without a
\* validation role or where the bot may not kick.
PurgeGuildCall(dry_run, cutoff_time) ==
    /\ p_dry_run' = dry_run
    /\ p_cutoff' = cutoff_time
    /\ p_pc' = IF guild_role = None \/ ~can_kick THEN "returned" ELSE "scanning"
    /\ p_i' = 1
    /\ p_count' = 0
    /\ p_tasks' = <<>>
    /\ p_result' = Nothing
    /\ p_counted' = <<>>
    /\ UNCHANGED <<guild_role, can_kick, p_members, dms, kicks, kick_calls, p_ended>>

\* A call of purge_guild on its own.
PurgeGuild(dry_run, cutoff_time) ==
    /\ p_pc = "idle"
    /\ PurgeGuildCall(dry_run, cutoff_time)
    /\ UNCHANGED <<chainVars, guildVars, joinVars, cmdVars, reactVars, eventVars>>

\* One pass of the loop over guild.fetch_members.
PurgeScan ==
    /\ p_pc = "scanning"
    /\ p_i <= Len(p_members)
    /\ LET kickable == is_kickable(p_members[p_i], guild_role, p_cutoff)
           tasks == IF kickable THEN AppendTask(p_tasks, p_dry_run, p_i)
                    ELSE p_tasks
           gather == kickable /\ ShouldGather(tasks)
       IN /\ p_count' = IF kickable THEN p_count + 1 ELSE p_count
          /\ p_counted' = IF kickable THEN Append(p_counted, p_i) ELSE p_counted
          /\ p_tasks' = IF gather THEN Scheduled(tasks) ELSE tasks
          /\ p_pc' = IF gather THEN "gathering" ELSE "scanning"
    /\ p_i' = p_i + 1
    /\ UNCHANGED <<chainVars, guildVars, joinVars, cmdVars, reactVars, eventVars,
                   guild_role, can_kick, p_members, p_dry_run, p_cutoff, p_result, dms, kicks, kick_calls, p_ended>>

\* The loop is over: the coroutines left are gathered, or count is returned.
PurgeScanEnd ==
    /\ p_pc = "scanning"
    /\ p_i > Len(p_members)
    /\ IF Len(p_tasks) > 0
       THEN /\ p_tasks' = Scheduled(p_tasks)
            /\ p_pc' = "gathering_last"
            /\ UNCHANGED p_result
       ELSE /\ p_result' = Some(p_count)
            /\ p_pc' = "returned"
            /\ UNCHANGED p_tasks
    /\ UNCHANGED <<chainVars, guildVars, joinVars, cmdVars, reactVars, eventVars,
                   guild_role, can_kick, p_members, p_dry_run, p_cutoff, p_i, p_count, p_counted,
                   dms, kicks, kick_calls, p_ended>>

\* _kick_member, the await of utils.send_dm: the notice is sent; or the member
\* takes no DMs, discord.Forbidden is caught and the coroutine ends; or
\* another error leaves the coroutine.
KickMemberSendDM(k) ==
    /\ k \in 1..Len(p_tasks)
    /\ p_tasks[k].at = "send_dm"
    /\ LET member == p_members[p_tasks[k].member]
           sent == send_dm(member)
       IN /\ dms' = IF sent = "open" THEN dms \cup {p_tasks[k].member}
                    ELSE dms
          /\ p_tasks' = [p_tasks EXCEPT ![k].at =
                            CASE sent = "open" -> "kick"
                              [] sent = "forbidden" -> "done"
                              [] sent = "error" -> "failed"]
          /\ p_ended' = IF sent = "open" THEN p_ended
                        ELSE p_ended \cup {p_tasks[k].member}
    /\ UNCHANGED <<chainVars, guildVars, joinVars, cmdVars, reactVars, eventVars,
                   guild_role, can_kick, p_members, p_pc, p_dry_run, p_cutoff, p_i, p_count,
                   p_result, p_counted, kicks, kick_calls>>

\* _kick_member, the await of member.kick: the member is kicked; or
\* discord.Forbidden is caught; or another error leaves the coroutine.
KickMemberKick(k) ==
    /\ k \in 1..Len(p_tasks)
    /\ p_tasks[k].at = "kick"
    /\ LET member == p_members[p_tasks[k].member]
       IN /\ kicks' = IF member.kick = "ok" THEN kicks \cup {p_tasks[k].member}
                      ELSE kicks
          /\ p_tasks' = [p_tasks EXCEPT ![k].at =
                            CASE member.kick = "ok" -> "done"
                              [] member.kick = "forbidden" -> "done"
                              [] member.kick = "error" -> "failed"]
    /\ kick_calls' = [kick_calls EXCEPT ![p_tasks[k].member] = @ + 1]
    /\ p_ended' = p_ended \cup {p_tasks[k].member}
    /\ UNCHANGED <<chainVars, guildVars, joinVars, cmdVars, reactVars, eventVars,
                   guild_role, can_kick, p_members, p_pc, p_dry_run, p_cutoff, p_i, p_count,
                   p_result, p_counted, dms>>

\* await asyncio.gather(*tasks) returns when every coroutine has ended: in the
\* loop tasks is cleared and the loop goes on, after it count is returned.
GatherReturn ==
    /\ p_pc \in {"gathering", "gathering_last"}
    /\ \A k \in 1..Len(p_tasks) : p_tasks[k].at = "done"
    /\ IF p_pc = "gathering"
       THEN /\ p_tasks' = <<>>
            /\ p_pc' = "scanning"
            /\ UNCHANGED p_result
       ELSE /\ p_result' = Some(p_count)
            /\ p_pc' = "returned"
            /\ UNCHANGED p_tasks
    /\ UNCHANGED <<chainVars, guildVars, joinVars, cmdVars, reactVars, eventVars,
                   guild_role, can_kick, p_members, p_dry_run, p_cutoff, p_i, p_count, p_counted,
                   dms, kicks, kick_calls, p_ended>>

\* await asyncio.gather(*tasks) raises the first error of a coroutine, out of
\* purge_guild; the other coroutines are not cancelled.
GatherRaise ==
    /\ p_pc \in {"gathering", "gathering_last"}
    /\ \E k \in 1..Len(p_tasks) : p_tasks[k].at = "failed"
    /\ p_pc' = "raised"
    /\ UNCHANGED <<chainVars, guildVars, joinVars, cmdVars, reactVars, eventVars,
                   guild_role, can_kick, p_members, p_dry_run, p_cutoff, p_i, p_count, p_tasks,
                   p_result, p_counted, dms, kicks, kick_calls, p_ended>>

\* The members of a purged guild: with and without the role, with no known
\* join time, a join before the cutoff and one at it, bots and boosters. dm
\* and kick are what Discord answers for the member: the notice is delivered,
\* refused (Forbidden) or fails otherwise, and so for the kick.
PurgeKinds ==
    [roles : {{}, {"verified"}},
     joined_at : {Nothing, Some(0), Some(1)},
     bot : BOOLEAN,
     premium_since : {Nothing, Some(0)},
     dm : {"open"}, kick : {"ok"}]

Stale == [roles |-> {}, joined_at |-> Some(0), bot |-> FALSE,
          premium_since |-> Nothing, dm |-> "open", kick |-> "ok"]

\* The members [trusted, bot, booster, stale].
TrustedBotBoosterStale ==
    <<[Stale EXCEPT !.roles = {"verified"}],
      [Stale EXCEPT !.bot = TRUE],
      [Stale EXCEPT !.premium_since = Some(0)],
      Stale>>

\* More unverified members than one gather takes: one takes no DMs, one the
\* bot may not kick, and the last one's kick fails with another error.
ManyStale ==
    <<Stale, [Stale EXCEPT !.dm = "forbidden"], Stale,
      [Stale EXCEPT !.kick = "forbidden"], Stale, Stale,
      [Stale EXCEPT !.kick = "error"]>>

\* Unverified members by what Discord answers: a refused or failed notice
\* leaves no kick to answer.
StaleKinds ==
    {[Stale EXCEPT !.dm = o[1], !.kick = o[2]] :
        o \in {<<"open", "ok">>, <<"forbidden", "ok">>, <<"error", "ok">>,
               <<"open", "forbidden">>, <<"open", "error">>}}

PurgeLists ==
    SeqsUpTo(PurgeKinds, MaxMembers) \cup SeqsUpTo(StaleKinds, MaxMembers)
        \cup {TrustedBotBoosterStale, ManyStale}

\* The cutoffs of a purge: the day a member may have joined, and the next.
PurgeCutoffs == {1, 2}

InitPurge ==
    /\ pc = "idle"
    /\ ctx = Nothing
    /\ chain = <<>>
    /\ pos = 1
    /\ invoked = <<>>
    /\ recorded = <<>>
    /\ owner_errors = <<>>
    /\ returned = Nothing
    /\ now = 2
    /\ lockdown = [g \in Guilds |-> Nothing]
    /\ last_cmd = [g \in Guilds |-> Nothing]
    /\ JoinIdle
    /\ CmdIdle
    /\ ReactIdle
    /\ EventIdle
    /\ guild_role \in {"verified", None}
    /\ can_kick \in BOOLEAN
    /\ p_members \in PurgeLists
    /\ p_pc = "idle"
    /\ p_dry_run = TRUE
    /\ p_cutoff = 0
    /\ p_i = 1
    /\ p_count = 0
    /\ p_tasks = <<>>
    /\ p_result = Nothing
    /\ p_counted = <<>>
    /\ dms = {}
    /\ kicks = {}
    /\ kick_calls = [i \in 1..Len(p_members) |-> 0]
    /\ p_ended = {}

NextPurge ==
    \/ \E dry_run \in BOOLEAN, cutoff_time \in PurgeCutoffs :
          PurgeGuild(dry_run, cutoff_time)
    \/ PurgeScan
    \/ PurgeScanEnd
    \/ \E k \in 1..(GATHER_THRESHOLD + 1) : KickMemberSendDM(k)
    \/ \E k \in 1..(GATHER_THRESHOLD + 1) : KickMemberKick(k)
    \/ GatherReturn
    \/ GatherRaise

SpecPurge == InitPurge /\ [][NextPurge]_vars

----------------------------------------------------------------------------
\* Properties of the purge, checked under SpecPurge.

\* The members the loop has passed, and those of them it counted.
Scanned == IF p_pc = "idle" THEN {} ELSE 1..(p_i - 1)
Counted == Range(p_counted)

LacksRole(m) == guild_role \notin m.roles
JoinedBefore(m) == m.joined_at # Nothing /\ m.joined_at[1] < p_cutoff
JoinTimeUnknown(m) == m.joined_at = Nothing
IsBooster(m) == m.premium_since # Nothing

\* C9 as stated: a member is counted exactly when it lacks the role, joined
\* before the cutoff, is no bot and no booster. A member whose join time
\* is not known did not join before the cutoff, and yet is counted.
C9_AsClaimed ==
    \A i \in Scanned :
        i \in Counted <=>
            /\ LacksRole(p_members[i])
            /\ JoinedBefore(p_members[i])
            /\ ~p_members[i].bot
            /\ ~IsBooster(p_members[i])

\* C9: purge_guild counts a member exactly when it lacks the validation role,
\* joined before the cutoff or has no known join time, is not a bot and is not
\* a booster; count is the number of such members, only counted members are
\* messaged or kicked, and a dry run over [trusted, bot, booster, stale]
\* returns 1.
C9_Kickable ==
    /\ \A i \in Scanned :
          i \in Counted <=>
              /\ LacksRole(p_members[i])
              /\ JoinedBefore(p_members[i]) \/ JoinTimeUnknown(p_members[i])
              /\ ~p_members[i].bot
              /\ ~IsBooster(p_members[i])
    /\ p_count = Len(p_counted)
    /\ dms \subseteq Counted
    /\ kicks \subseteq Counted
    /\ (p_members = TrustedBotBoosterStale /\ p_dry_run /\ p_result # Nothing)
          => p_result = Some(1)

\* A dry run over [trusted, bot, booster, stale] has returned, with only the
\* stale member counted.
C9_Witness ==
    /\ p_members = TrustedBotBoosterStale
    /\ p_dry_run
    /\ p_pc = "returned"
    /\ p_result = Some(1)
    /\ p_counted = <<4>>

\* A member without a known join time has been counted.
C9_WitnessUnknownJoin ==
    \E i \in Counted : JoinTimeUnknown(p_members[i])

\* C10: a dry run of purge_guild sends no direct message, kicks no member and
\* makes no kick coroutine, whatever the members and the cutoff.
C10_DryRunIsInert ==
    (p_pc # "idle" /\ p_dry_run) =>
        /\ dms = {}
        /\ kicks = {}
        /\ p_tasks = <<>>

\* A dry run has returned a count of one member or more.
C10_Witness ==
    /\ p_dry_run
    /\ p_pc = "returned"
    /\ p_result # Nothing
    /\ p_result[1] >= 1
    /\ p_tasks = <<>>

----------------------------------------------------------------------------
\* Properties of an execute purge, checked under SpecPurge.

\* purge_guild has returned its count from a pass that kicks.
ExecuteReturned == ~p_dry_run /\ p_pc = "returned" /\ p_result # Nothing

\* C11 as stated: when an execute pass returns, member.kick has been called
\* once for every member the pass counted and for no other member. The code
\* leaves _kick_member without calling member.kick when the notice is refused
\* (see C14).
C11_AsClaimed ==
    ExecuteReturned =>
        \A i \in 1..Len(p_members) :
            kick_calls[i] = IF i \in Counted THEN 1 ELSE 0

\* C12 as stated: a dry run returns the number of kickable members and an
\* execute pass the number of members it removed. The code returns the number
\* of kickable members from both.
C12_AsClaimed ==
    (p_pc = "returned" /\ p_result # Nothing) =>
        p_result[1] = IF p_dry_run THEN Cardinality(Counted)
                      ELSE Cardinality(kicks)

\* The _kick_member coroutines that have been scheduled and have not ended.
InFlight == {k \in 1..Len(p_tasks) : p_tasks[k].at \in {"send_dm", "kick"}}

\* The batch of a counted member: purge_guild gathers the counted members in
\* the order it counted them, GATHER_THRESHOLD + 1 at a time.
BatchOf(i) ==
    LET rank == CHOOSE r \in 1..Len(p_counted) : p_counted[r] = i
    IN (rank - 1) \div (GATHER_THRESHOLD + 1)

\* C13: at most GATHER_THRESHOLD + 1 = 6 _kick_member coroutines are in flight
\* at any moment, and a coroutine of a later batch is scheduled only after
\* every coroutine of the batches before it has ended.
C13_BoundedBatches ==
    /\ GATHER_THRESHOLD + 1 \in 5..10
    /\ Cardinality(InFlight) <= GATHER_THRESHOLD + 1
    /\ \A k \in 1..Len(p_tasks) :
          p_tasks[k].at # "created" =>
              \A i \in Counted :
                  BatchOf(i) < BatchOf(p_tasks[k].member) => i \in p_ended

\* A coroutine of the second batch is in flight, after the six of the first.
C13_Witness ==
    /\ Cardinality(p_ended) >= GATHER_THRESHOLD + 1
    /\ \E k \in InFlight : BatchOf(p_tasks[k].member) = 1

\* C14 as stated: a member whose notice could not be delivered is kicked all
\* the same. In the code the refusal of the notice leaves the try block
\* before member.kick is called.
C14_AsClaimed ==
    \A i \in p_ended : p_members[i].dm # "open" => kick_calls[i] = 1

\* C15 as stated: no failure of one removal keeps purge_guild from returning.
\* An error that is not discord.Forbidden leaves _kick_member, and gather
\* raises it out of purge_guild.
C15_AsClaimed ==
    ~p_dry_run => p_pc # "raised"

----------------------------------------------------------------------------
\* The purge command: Validation.validation_purge.

\* A plausible slip: the cutoff is taken from the clock again for each pass.
PurgeCutoffFromClock(check_time, lookback) == now - lookback

\* check_time - lookback, the cutoff_time handed to both calls of purge_guild.
PurgeCutoff(check_time, lookback) == check_time - lookback

\* utils.wait_for_confirmation: TRUE when the operator confirmed, FALSE when
\* the operator declined or gave no answer in time.
wait_for_confirmation(answer) == answer = "y"

\* What validation_purge has done, in order.
Sent(text, count) == [ev |-> "send", arg |-> <<text, count>>]
Called(dry_run, cutoff_time) == [ev |-> "purge_guild", arg |-> <<dry_run, cutoff_time>>]
Asked(confirmed) == [ev |-> "confirmation", arg |-> <<confirmed>>]

\* validation_purge up to the dry run: bot_has_permissions(kick_members=True)
\* refuses the command when the bot may not kick; a guild without a
\* validation role is told so, and the command goes on.
ValidationPurge(lookback) ==
    /\ c_pc = "idle"
    /\ p_pc = "idle"
    /\ IF ~can_kick
       THEN /\ c_pc' = "check_failed"
            /\ UNCHANGED <<c_check_time, c_lookback, c_count, c_log, purgeVars>>
       ELSE /\ c_pc' = "dry_run"
            /\ c_check_time' = now
            /\ c_lookback' = lookback
            /\ c_log' = (IF guild_role = None
                         THEN <<Sent("No role has been configured.", Nothing)>>
                         ELSE <<>>)
                        \o <<Called(TRUE, PurgeCutoff(now, lookback))>>
            /\ PurgeGuildCall(TRUE, PurgeCutoff(now, lookback))
            /\ UNCHANGED <<c_count, p_ended>>
    /\ UNCHANGED <<chainVars, guildVars, joinVars, reactVars, eventVars>>

\* The dry run has returned: its count is shown with the question.
ValidationPurgeAsk ==
    /\ c_pc = "dry_run"
    /\ p_pc = "returned"
    /\ c_count' = p_result
    /\ c_log' = Append(c_log, Sent("Doing this will purge", p_result))
    /\ c_pc' = "confirming"
    /\ UNCHANGED <<c_check_time, c_lookback, chainVars, guildVars, joinVars,
                   purgeVars, reactVars, eventVars>>

\* The answer: on a confirmation purge_guild is called again, to kick;
\* otherwise the purge is cancelled.
ValidationPurgeAnswer(answer) ==
    /\ c_pc = "confirming"
    /\ LET continue_purge == wait_for_confirmation(answer)
           cutoff_time == PurgeCutoff(c_check_time, c_lookback)
       IN IF continue_purge
          THEN /\ c_log' = c_log \o <<Asked(TRUE), Called(FALSE, cutoff_time)>>
               /\ PurgeGuildCall(FALSE, cutoff_time)
               /\ c_pc' = "executing"
               /\ UNCHANGED p_ended
          ELSE /\ c_log' = c_log \o <<Asked(FALSE),
                                     Sent("Purged cancelled", Nothing)>>
               /\ c_pc' = "done"
               /\ UNCHANGED purgeVars
    /\ UNCHANGED <<c_check_time, c_lookback, c_count, chainVars, guildVars,
                   joinVars, reactVars, eventVars>>

\* The second call has returned: the count of the dry run is reported.
ValidationPurgeDone ==
    /\ c_pc = "executing"
    /\ p_pc = "returned"
    /\ c_log' = Append(c_log, Sent("Purged", c_count))
    /\ c_pc' = "done"
    /\ UNCHANGED <<c_check_time, c_lookback, c_count, chainVars, guildVars,
                   joinVars, purgeVars, reactVars, eventVars>>

\* The second call has raised: the error leaves the command.
ValidationPurgeRaise ==
    /\ c_pc = "executing"
    /\ p_pc = "raised"
    /\ c_pc' = "raised"
    /\ UNCHANGED <<c_check_time, c_lookback, c_count, c_log, chainVars,
                   guildVars, joinVars, purgeVars, reactVars, eventVars>>

\* The lookbacks an operator asks for, in days.
PurgeLookbacks == {0, 1}

CmdLists == SeqsUpTo(StaleKinds, MaxMembers) \cup {TrustedBotBoosterStale}

InitPurgeCmd ==
    /\ pc = "idle"
    /\ ctx = Nothing
    /\ chain = <<>>
    /\ pos = 1
    /\ invoked = <<>>
    /\ recorded = <<>>
    /\ owner_errors = <<>>
    /\ returned = Nothing
    /\ now = 2
    /\ lockdown = [g \in Guilds |-> Nothing]
    /\ last_cmd = [g \in Guilds |-> Nothing]
    /\ JoinIdle
    /\ CmdIdle
    /\ ReactIdle
    /\ EventIdle
    /\ guild_role \in {"verified", None}
    /\ can_kick \in BOOLEAN
    /\ p_members \in CmdLists
    /\ p_pc = "idle"
    /\ p_dry_run = TRUE
    /\ p_cutoff = 0
    /\ p_i = 1
    /\ p_count = 0
    /\ p_tasks = <<>>
    /\ p_result = Nothing
    /\ p_counted = <<>>
    /\ dms = {}
    /\ kicks = {}
    /\ kick_calls = [i \in 1..Len(p_members) |-> 0]
    /\ p_ended = {}

NextPurgeCmd ==
    \/ \E lookback \in PurgeLookbacks : ValidationPurge(lookback)
    \/ ValidationPurgeAsk
    \/ \E answer \in {"y", "n", "timeout"} : ValidationPurgeAnswer(answer)
    \/ ValidationPurgeDone
    \/ ValidationPurgeRaise
    \/ PurgeScan
    \/ PurgeScanEnd
    \/ \E k \in 1..(GATHER_THRESHOLD + 1) : KickMemberSendDM(k)
    \/ \E k \in 1..(GATHER_THRESHOLD + 1) : KickMemberKick(k)
    \/ GatherReturn
    \/ GatherRaise
    \/ Tick

SpecPurgeCmd == InitPurgeCmd /\ [][NextPurgeCmd]_vars

----------------------------------------------------------------------------
\* Properties of the purge command, checked under SpecPurgeCmd.

IsCall(e, dry_run) == e.ev = "purge_guild" /\ e.arg[1] = dry_run
Confirmed == \E k \in 1..Len(c_log) : c_log[k] = Asked(TRUE)

\* C16: purge_guild is called to kick only right after the operator's
\* confirmation, which follows the question showing the dry run's count, which
\* follows the dry run's return; the call has the dry run's cutoff_time; and
\* as long as the operator has not confirmed, nobody is messaged or kicked.
C16_ConfirmBeforeExecute ==
    /\ \A k \in 1..Len(c_log) :
          IsCall(c_log[k], FALSE) =>
              /\ k >= 4
              /\ c_log[k - 1] = Asked(TRUE)
              /\ c_log[k - 2] = Sent("Doing this will purge", c_count)
              /\ IsCall(c_log[k - 3], TRUE)
              /\ c_log[k - 3].arg[2] = c_log[k].arg[2]
    /\ ~Confirmed =>
          /\ dms = {}
          /\ kicks = {}
          /\ p_ended = {}
          /\ \A i \in 1..Len(kick_calls) : kick_calls[i] = 0
    /\ (c_pc \in {"executing", "done", "raised"} /\ Confirmed) => ~p_dry_run

\* The operator confirmed a day after the command was given, and the second
\* pass has kicked a member.
C16_Witness ==
    /\ c_pc = "done"
    /\ Confirmed
    /\ kicks # {}
    /\ now > c_check_time
    /\ \E k \in 1..Len(c_log) : IsCall(c_log[k], FALSE)

\* The operator did not confirm a purge that had members to kick.
C16_WitnessDeclined ==
    /\ c_pc = "done"
    /\ ~Confirmed
    /\ c_count # Nothing
    /\ c_count[1] >= 1

----------------------------------------------------------------------------
\* Overrides by reaction: Validation.on_raw_reaction_add.

HexDigits == <<"0", "1", "2", "3", "4", "5", "6", "7", "8", "9",
               "a", "b", "c", "d", "e", "f">>

\* int(text, 16) on plain digits: the number, or Nothing for the ValueError
\* that text with another character, or no character, raises.
RECURSIVE ParseHexFrom(_, _, _)
ParseHexFrom(text, i, acc) ==
    IF i > Len(text) THEN Some(acc)
    ELSE LET ch == FoldChar(text[i])
         IN IF \E d \in 1..16 : HexDigits[d] = ch
            THEN ParseHexFrom(text, i + 1,
                     16 * acc + (CHOOSE d \in 1..16 : HexDigits[d] = ch) - 1)
            ELSE Nothing

ParseHex(text) == IF text = <<>> THEN Nothing ELSE ParseHexFrom(text, 1, 0)

\* A plausible slip: the channel is not compared with the modlog channel.
get_message_any_channel(payload) ==
    IF \/ ~payload.guild_found
       \/ payload.from_bot
       \/ payload.emoji \notin Range(MODLOG_REACTIONS)
    THEN Nothing
    ELSE IF payload.channel = "none" THEN Nothing
    ELSE Some(payload.message)

\* Validation.get_message: None unless the guild is known, the reaction is
\* not the bot's own, the emoji is one of MODLOG_REACTIONS and the channel is
\* the guild's modlog channel; otherwise the message reacted to.
get_message(payload) ==
    IF \/ ~payload.guild_found
       \/ payload.from_bot
       \/ payload.emoji \notin Range(MODLOG_REACTIONS)
    THEN Nothing
    ELSE IF payload.channel = "none" \/ payload.channel # "modlog" THEN Nothing
    ELSE Some(payload.message)

\* bot.get_member_async: the member of the guild with that id, or None when
\* there is none or it can no longer be resolved.
get_member_async(found, target_id) ==
    IF found /\ target_id \in DOMAIN r_roles THEN Some(target_id) ELSE Nothing

\* A plausible slip: the ban reaction is bound to the kick handler.
ActionOfBanKicks(emoji) ==
    CASE emoji = APPROVE_REACTION -> "approve"
      [] emoji = KICK_REACTION -> "kick"
      [] emoji = BAN_REACTION -> "kick"
      [] OTHER -> "none"

\* The action dict of on_raw_reaction_add, the handler of an emoji.
ActionOf(emoji) ==
    CASE emoji = APPROVE_REACTION -> "approve"
      [] emoji = KICK_REACTION -> "kick"
      [] emoji = BAN_REACTION -> "ban"
      [] OTHER -> "none"

\* A plausible slip: the ban reaction is gated by the kick permission.
PermOfBanByKick(emoji, perms) ==
    CASE emoji = APPROVE_REACTION -> "manage_roles" \in perms
      [] emoji = KICK_REACTION -> "kick_members" \in perms
      [] emoji = BAN_REACTION -> "kick_members" \in perms
      [] OTHER -> FALSE

\* The action dict of on_raw_reaction_add, the permission of an emoji.
PermOf(emoji, perms) ==
    CASE emoji = APPROVE_REACTION -> "manage_roles" \in perms
      [] emoji = KICK_REACTION -> "kick_members" \in perms
      [] emoji = BAN_REACTION -> "ban_members" \in perms
      [] OTHER -> FALSE

\* What a handler leaves: the targets' roles and the logs.
World == [roles |-> r_roles, calls |-> r_calls, notes |-> r_notes,
          dispatched |-> r_dispatched]

Call(name, user, target, answer) ==
    [call |-> name, by |-> user, target |-> target, answer |-> answer]
Note(kind, ok, user, target) ==
    [kind |-> kind, ok |-> ok, by |-> user, target |-> target]

\* A plausible slip: the handler sends its note without calling verify_member.
approve_member_by_reaction_note_only(w, user, target, answer) ==
    [w EXCEPT !.notes = Append(@, Note("approve", TRUE, user, target))]

\* approve_member_by_reaction: a fresh context is approved, so verify_member
\* gives the role the target lacks and dispatches verify_accept; the note
\* names the moderator and the target. When add_roles was refused
\* (discord.Forbidden) the note only says "Attempted" and names nobody.
approve_member_by_reaction(w, user, target, answer) ==
    LET c == NewContext([id |-> target], config[1].role_id)
        add == ShouldAddRole(c, w.roles[target])
        calls == IF add THEN Append(w.calls, Call("add_roles", user, target, answer))
                 ELSE w.calls
    IN IF add /\ answer = "forbidden"
       THEN [w EXCEPT !.calls = calls,
                      !.notes = Append(@, Note("approve", FALSE, None, None))]
       ELSE [w EXCEPT !.calls = calls,
                      !.roles[target] = IF add THEN @ \cup {c.role} ELSE @,
                      !.dispatched = Append(@, <<"verify_accept", target>>),
                      !.notes = Append(@, Note("approve", TRUE, user, target))]

\* A plausible slip: no except clause, a refused kick leaves no note.
kick_member_by_reaction_silent(w, user, target, answer) ==
    IF answer = "ok"
    THEN [w EXCEPT !.calls = Append(@, Call("kick", user, target, answer)),
                   !.notes = Append(@, Note("kick", TRUE, user, target))]
    ELSE [w EXCEPT !.calls = Append(@, Call("kick", user, target, answer))]

\* kick_member_by_reaction: the target is kicked and the note names the
\* moderator; a refused kick (discord.Forbidden) leaves the failure note.
kick_member_by_reaction(w, user, target, answer) ==
    IF answer = "ok"
    THEN [w EXCEPT !.calls = Append(@, Call("kick", user, target, answer)),
                   !.notes = Append(@, Note("kick", TRUE, user, target))]
    ELSE [w EXCEPT !.calls = Append(@, Call("kick", user, target, answer)),
                   !.notes = Append(@, Note("kick", FALSE, user, target))]

\* ban_member_by_reaction: as for a kick.
ban_member_by_reaction(w, user, target, answer) ==
    IF answer = "ok"
    THEN [w EXCEPT !.calls = Append(@, Call("ban", user, target, answer)),
                   !.notes = Append(@, Note("ban", TRUE, user, target))]
    ELSE [w EXCEPT !.calls = Append(@, Call("ban", user, target, answer)),
                   !.notes = Append(@, Note("ban", FALSE, user, target))]

\* await func(guild, user, target)
RunAction(name, w, user, target, answer) ==
    CASE name = "approve" -> approve_member_by_reaction(w, user, target, answer)
      [] name = "kick" -> kick_member_by_reaction(w, user, target, answer)
      [] name = "ban" -> ban_member_by_reaction(w, user, target, answer)

\* How on_raw_reaction_add ends for a payload, and the world it leaves.
\* payload.member is None for a reaction outside a guild, and a footer without
\* text is no str: both raise out of the handler.
HandleReaction(payload) ==
    LET message == get_message(payload)
        leave(how) == [how |-> how, world |-> World]
    IN IF ~payload.guild_found THEN leave("raised")
       ELSE IF message = Nothing THEN leave("dropped")
       ELSE IF message[1].embeds <= 0 \/ ~message[1].author_bot
            THEN leave("dropped")
       ELSE IF message[1].footer = Nothing THEN leave("raised")
       ELSE LET target_id == ParseHex(message[1].footer[1])
            IN IF target_id = Nothing THEN leave("dropped")
               ELSE LET target == get_member_async(payload.found, target_id[1])
                    IN IF target = Nothing THEN leave("dropped")
                       ELSE IF ActionOf(payload.emoji) = "none"
                            THEN leave("dropped")
                       ELSE IF ~PermOf(payload.emoji, payload.perms)
                            THEN leave("denied")
                       ELSE [how |-> "acted",
                             world |-> RunAction(ActionOf(payload.emoji), World,
                                                 payload.by, target[1],
                                                 payload.answer)]

\* on_raw_reaction_add
OnRawReactionAdd(payload) ==
    /\ r_n < MaxReactions
    /\ r_n' = r_n + 1
    /\ r_payload' = Some(payload)
    /\ LET res == HandleReaction(payload)
       IN /\ r_outcome' = res.how
          /\ r_roles' = res.world.roles
          /\ r_calls' = res.world.calls
          /\ r_notes' = res.world.notes
          /\ r_dispatched' = res.world.dispatched
    /\ UNCHANGED <<chainVars, guildVars, joinVars, purgeVars, cmdVars, eventVars>>

\* The permissions a reacting member may hold.
ModeratorPerms == {"manage_roles", "kick_members", "ban_members"}

\* The members audit messages are about, by id: 0x7 was rejected by the
\* automatic evaluation and lacks the validation role, 0x1f was verified and
\* has it.
ReactionTargets == {7, 31}

\* A reaction by a member on a modlog message of the bot whose footer is the
\* hexadecimal id of a member of the guild.
BasePayload ==
    [guild_found |-> TRUE, from_bot |-> FALSE, emoji |-> APPROVE_REACTION,
     channel |-> "modlog",
     message |-> [embeds |-> 1, author_bot |-> TRUE, verified |-> FALSE,
                  footer |-> Some(<<"7">>)],
     found |-> TRUE, perms |-> ModeratorPerms, by |-> "Ann", answer |-> "ok"]

\* The permissions of the members that react: none, one, or all three.
ReactorPerms == {{}, ModeratorPerms} \cup {{perm} : perm \in ModeratorPerms}

\* The reactions that reach the permission check: every emoji of the three,
\* by members of every kind, on either audit message, with Discord performing
\* or refusing the call; and a second moderator who kicks and bans.
ActingPayloads ==
    {[BasePayload EXCEPT !.emoji = e, !.perms = ps, !.answer = a,
                         !.message.footer = Some(f),
                         !.message.verified = (f # <<"7">>)] :
        e \in Range(MODLOG_REACTIONS), ps \in ReactorPerms,
        a \in {"ok", "forbidden"}, f \in {<<"7">>, <<"1", "F">>}}
        \cup {[BasePayload EXCEPT !.emoji = e, !.by = "Bob"] :
                 e \in {KICK_REACTION, BAN_REACTION}}

\* The reactions that differ from BasePayload in one respect that makes the
\* handler leave early.
StrayPayloads ==
    UNION {{[BasePayload EXCEPT !.emoji = e, !.guild_found = FALSE],
            [BasePayload EXCEPT !.emoji = e, !.from_bot = TRUE],
            [BasePayload EXCEPT !.emoji = e, !.channel = "general"],
            [BasePayload EXCEPT !.emoji = e, !.channel = "none"],
            [BasePayload EXCEPT !.emoji = e, !.message.embeds = 0],
            [BasePayload EXCEPT !.emoji = e, !.message.author_bot = FALSE],
            [BasePayload EXCEPT !.emoji = e, !.message.footer = Nothing],
            [BasePayload EXCEPT !.emoji = e, !.message.footer = Some(<<>>)],
            [BasePayload EXCEPT !.emoji = e, !.message.footer = Some(<<"7", "z">>)],
            [BasePayload EXCEPT !.emoji = e, !.message.footer = Some(<<"2", "a">>)],
            [BasePayload EXCEPT !.emoji = e, !.found = FALSE]} :
           e \in {APPROVE_REACTION, BAN_REACTION}}
        \cup {[BasePayload EXCEPT !.emoji = "eyes"]}

ReactionPayloads == ActingPayloads \cup StrayPayloads

InitReaction ==
    /\ pc = "idle"
    /\ ctx = Nothing
    /\ chain = <<>>
    /\ pos = 1
    /\ invoked = <<>>
    /\ recorded = <<>>
    /\ owner_errors = <<>>
    /\ returned = Nothing
    /\ now = 0
    /\ lockdown = [g \in Guilds |-> Nothing]
    /\ last_cmd = [g \in Guilds |-> Nothing]
    /\ config \in {Some([enabled |-> TRUE, role_id |-> "verified"]),
                   Some([enabled |-> TRUE, role_id |-> None])}
    /\ member_roles = {}
    /\ dispatched = <<>>
    /\ modlog = <<>>
    /\ msg = Nothing
    /\ reactions = <<>>
    /\ steps = <<>>
    /\ PurgeIdle
    /\ CmdIdle
    /\ r_n = 0
    /\ r_payload = Nothing
    /\ r_outcome = "none"
    /\ r_roles = [t \in ReactionTargets |-> IF t = 31 THEN {"verified"} ELSE {}]
    /\ r_calls = <<>>
    /\ r_notes = <<>>
    /\ r_dispatched = <<>>
    /\ EventIdle

NextReaction == \E payload \in ReactionPayloads : OnRawReactionAdd(payload)

SpecReaction == InitReaction /\ [][NextReaction]_vars

----------------------------------------------------------------------------
\* Properties of the overrides by reaction, checked under SpecReaction.

\* A step that handles one reaction, its payload, and what it must leave alone.
Handles == r_n' = r_n + 1
Payload == r_payload'[1]
WorldUnchanged == UNCHANGED <<r_roles, r_calls, r_notes, r_dispatched>>

Recognized(p) == p.emoji \in {APPROVE_REACTION, KICK_REACTION, BAN_REACTION}
MatchingPerm(p) ==
    CASE p.emoji = APPROVE_REACTION -> "manage_roles"
      [] p.emoji = KICK_REACTION -> "kick_members"
      [] p.emoji = BAN_REACTION -> "ban_members"
Authorized(p) == Recognized(p) /\ MatchingPerm(p) \in p.perms

\* The reaction is one the handler has to drop.
Stray(p) ==
    \/ ~p.guild_found
    \/ p.from_bot
    \/ ~Recognized(p)
    \/ p.channel # "modlog"
    \/ p.message.embeds = 0
    \/ ~p.message.author_bot
    \/ p.message.footer = Nothing
    \/ ParseHex(p.message.footer[1]) = Nothing
    \/ ~p.found
    \/ ParseHex(p.message.footer[1])[1] \notin ReactionTargets

TargetOf(p) == ParseHex(p.message.footer[1])[1]

\* C17: a reaction is acted on only when the reacting member holds the
\* permission of its emoji (approve: manage_roles, kick: kick_members, ban:
\* ban_members); a reaction of a member without it grants no role, kicks and
\* bans nobody, dispatches nothing and leaves no note.
C17_PermissionGate ==
    [][Handles =>
          /\ (r_outcome' = "acted" => Authorized(Payload))
          /\ (Recognized(Payload) /\ ~Authorized(Payload)) => WorldUnchanged
      ]_vars

\* After a reaction that acted, one of a member without the permission was
\* turned away.
C17_Witness ==
    /\ r_outcome = "denied"
    /\ r_payload[1].perms # {}
    /\ Len(r_notes) = 1

\* C18: a reaction of the bot itself, with another emoji, on a message that
\* is not an embed of the bot in the modlog channel, with a footer that is no
\* hexadecimal number, or for a member that cannot be resolved, ends the
\* handler with no role granted, nobody kicked or banned and no note.
C18_StrayReactionsDropped ==
    [][(Handles /\ Stray(Payload)) =>
          /\ r_outcome' \in {"dropped", "raised"}
          /\ WorldUnchanged
      ]_vars

\* After a reaction that acted, one whose target is gone was dropped.
C18_Witness ==
    /\ r_outcome = "dropped"
    /\ ~r_payload[1].found
    /\ Len(r_notes) = 1

C20_OneNotePerRemoval ==
    [][(/\ Handles
        /\ ~Stray(Payload)
        /\ Authorized(Payload)
        /\ Payload.emoji \in {KICK_REACTION, BAN_REACTION}) =>
          /\ r_outcome' = "acted"
          /\ r_notes' = Append(r_notes,
                               Note(Payload.emoji, Payload.answer = "ok",
                                    Payload.by, TargetOf(Payload)))
          /\ r_calls'[Len(r_calls')].answer = Payload.answer
      ]_vars

\* Discord refused a ban asked for by reaction, and the note of failure was
\* left.
C20_Witness ==
    /\ r_outcome = "acted"
    /\ r_payload[1].emoji = BAN_REACTION
    /\ r_payload[1].answer = "forbidden"
    /\ r_notes # <<>>
    /\ ~r_notes[Len(r_notes)].ok

----------------------------------------------------------------------------
\* The cog's handlers on one guild: a member joins and is updated, a moderator
\* gives the verify command, and purge_guild is called.

\* The members of the events: an account the chain approves and one it
\* rejects (no avatar), with and without the role, pending or not.
EventMembers ==
    {[AnyMember EXCEPT !.avatar = a, !.roles = r, !.pending = p] :
        a \in {"avatar", None}, r \in {{}, {"verified"}}, p \in BOOLEAN}

\* The membership lists of the purge: an unverified member the bot can kick,
\* and one whose kick fails.
EventPurgeLists == {<<Stale>>, <<[Stale EXCEPT !.kick = "error"]>>}

\* No purge is in flight.
NoPurge == p_pc \in {"idle", "returned", "raised"}

\* A guild of every configuration before the member joins; the guild's
\* validation role is the role of its config.
InitEvents ==
    /\ pc = "idle"
    /\ ctx = Nothing
    /\ chain = <<>>
    /\ pos = 1
    /\ invoked = <<>>
    /\ recorded = <<>>
    /\ owner_errors = <<>>
    /\ returned = Nothing
    /\ now = 2
    /\ lockdown = [g \in Guilds |-> Nothing]
    /\ last_cmd = [g \in Guilds |-> Nothing]
    /\ config \in JoinConfigs
    /\ member_roles = {}
    /\ dispatched = <<>>
    /\ modlog = <<>>
    /\ msg = Nothing
    /\ reactions = <<>>
    /\ steps = <<>>
    /\ guild_role = IF config = Nothing THEN None ELSE config[1].role_id
    /\ can_kick \in BOOLEAN
    /\ p_members \in EventPurgeLists
    /\ p_pc = "idle"
    /\ p_dry_run = TRUE
    /\ p_cutoff = 0
    /\ p_i = 1
    /\ p_count = 0
    /\ p_tasks = <<>>
    /\ p_result = Nothing
    /\ p_counted = <<>>
    /\ dms = {}
    /\ kicks = {}
    /\ kick_calls = [i \in 1..Len(p_members) |-> 0]
    /\ p_ended = {}
    /\ CmdIdle
    /\ ReactIdle
    /\ EventIdle

\* One handler at a time: an event or command is handled when no purge is in
\* flight, and the purge is called when no evaluation is.
NextEvents ==
    \/ NoPurge /\ \E member \in EventMembers : OnMemberJoin(member)
    \/ NoPurge /\ \E pending \in BOOLEAN : OnMemberUpdate(pending)
    \/ NoPurge /\ \E member \in {m \in EventMembers : ~m.pending /\ m.roles = {}} :
                     ValidationVerify(member)
    \/ ValidateStep
    \/ ValidateReturn
    \/ VerifyMember
    \/ SendModlogMessage
    \/ AddReactions
    \/ SendLogMessage
    \/ NoEvaluation /\ \E dry_run \in BOOLEAN :
                          PurgeGuild(dry_run, 1)
    \/ PurgeScan
    \/ PurgeScanEnd
    \/ \E k \in 1..(GATHER_THRESHOLD + 1) : KickMemberSendDM(k)
    \/ \E k \in 1..(GATHER_THRESHOLD + 1) : KickMemberKick(k)
    \/ GatherReturn
    \/ GatherRaise

SpecEvents == InitEvents /\ [][NextEvents]_vars

\* Validation is not configured for the guild, or not enabled.
NotEnabled == config = Nothing \/ ~config[1].enabled

\* C22: in a guild whose validation is not configured or not enabled, joins,
\* member updates and verify commands run no validator, build no context,
\* grant no role, dispatch no event and send nothing to the modlog; and in a
\* guild without a validation role, or where the bot may not kick,
\* purge_guild counts, messages and kicks nobody.
C22_NotConfiguredIsInert ==
    /\ NotEnabled =>
          /\ ctx = Nothing
          /\ invoked = <<>>
          /\ dispatched = <<>>
          /\ modlog = <<>>
          /\ reactions = <<>>
          /\ joined # Nothing => member_roles = joined[1].roles
    /\ (guild_role = None \/ ~can_kick) =>
          /\ p_counted = <<>>
          /\ dms = {}
          /\ kicks = {}
          /\ p_ended = {}
          /\ \A i \in DOMAIN kick_calls : kick_calls[i] = 0

\* In a guild where validation is not enabled a member has joined, a verify
\* command was answered and an execute purge has returned.
C22_Witness ==
    /\ NotEnabled
    /\ on_join_calls = 1
    /\ v_log # <<>>
    /\ p_pc = "returned"
    /\ ~p_dry_run
    /\ (guild_role = None \/ ~can_kick)

----------------------------------------------------------------------------
\* The validators of rejectors.py on arbitrary members: validate_member over
\* chains of the cog's own validators.

\* The ban records BanStorage.get_bans may return: with and without a reason,
\* of a guild that is large enough when the record is read, of one that has
\* shrunk below min_guild_size since the guild ids were collected, and of one
\* bot.get_guild no longer finds.
BanRecords ==
    [reason : {None, "raid", "spam"},
     guild : {Some(MIN_GUILD_SIZE), Some(MIN_GUILD_SIZE - 1), Nothing}]

\* Names around the filters "spam" and "bot": the filter itself in any letter
\* case, a part of it, and the filter with text before and after it.
FilterNames ==
    {pre \o core \o post :
        pre \in {<<>>, <<"x">>},
        core \in {<<"s", "p", "a", "m">>, <<"S", "p", "A", "m">>,
                  <<"s", "p", "a">>, <<"b", "o", "t">>, <<"B", "O", "T">>},
        post \in {<<>>, <<"s">>}}

\* The validators of VALIDATORS that read ctx.usernames, and one that does not.
UsernameReaders ==
    {VALIDATORS[i] : i \in {j \in 1..Len(VALIDATORS) :
        VALIDATORS[j].cls \in {"StringFilterRejector", "BannedUsernameRejector",
                               "NoAvatarRejector"}}}

\* What validate_member is called with: the BannedUserRejector on every
\* sequence of ban records, each user bot name filter on every name (alone and
\* with a stored name), and every chain of username readers on members with
\* and without a name and stored names.
ValidatorInputs ==
    {[chain |-> <<VALIDATORS[i]>>, member |-> [AnyMember EXCEPT !.bans = bans]] :
        i \in {j \in 1..Len(VALIDATORS) : VALIDATORS[j].cls = "BannedUserRejector"},
        bans \in SeqsUpTo(BanRecords, MaxBans)}
    \cup
    {[chain |-> <<VALIDATORS[i]>>,
      member |-> [AnyMember EXCEPT !.name = Some(name), !.past_names = past]] :
        i \in {j \in 1..Len(VALIDATORS) :
                  /\ VALIDATORS[j].cls = "StringFilterRejector"
                  /\ VALIDATORS[j].prefix = "Likely user bot. "},
        name \in FilterNames,
        past \in {{}, {<<"s", "p", "a", "m">>}, {<<"r", "o", "b", "o", "t">>}}}
    \cup
    {[chain |-> readers,
      member |-> [AnyMember EXCEPT !.name = name, !.past_names = past]] :
        readers \in SeqsUpTo(UsernameReaders, MaxChain),
        name \in {Nothing, Some(<<"n", "e", "o">>)},
        past \in {{}, {<<"E", "v", "i", "l", " ", "o", "n", "e">>}}}

InitValidators ==
    /\ \E input \in ValidatorInputs :
          /\ chain = input.chain
          /\ ctx = NewContext(input.member, None)
    /\ pos = 1
    /\ pc = "validating"
    /\ invoked = <<>>
    /\ recorded = <<>>
    /\ owner_errors = <<>>
    /\ returned = Nothing
    /\ now = 0
    /\ lockdown = [g \in Guilds |-> Nothing]
    /\ last_cmd = [g \in Guilds |-> Nothing]
    /\ JoinIdle
    /\ PurgeIdle
    /\ CmdIdle
    /\ ReactIdle
    /\ EventIdle

SpecValidators == InitValidators /\ [][Next]_vars

\* The chain is one validator of that class, and it has been called.
Ran(cls) == Len(chain) = 1 /\ chain[1].cls = cls /\ pos = 2

\* The ban records of guilds that are there and large enough when read.
ValidBans ==
    SelectSeq(ctx.member.bans,
              LAMBDA ban : ban.guild # Nothing /\ ban.guild[1] >= MIN_GUILD_SIZE)
StaleBans ==
    SelectSeq(ctx.member.bans,
              LAMBDA ban : ban.guild = Nothing \/ ban.guild[1] < MIN_GUILD_SIZE)

\* The rejection reasons a sequence of ban records calls for: one for each
\* distinct reason text, the generic one when there are bans but no text.
BanReasons(bans) ==
    LET texts == {bans[i].reason : i \in 1..Len(bans)} \ {None}
    IN IF texts # {}
       THEN {<<"Banned on another server. Reason: ", text>> : text \in texts}
       ELSE IF bans # <<>> THEN {<<"Banned on another server.">>} ELSE {}

\* The context holds each of these reasons once, and no other.
RejectedExactlyFor(reasons) ==
    /\ Range(ctx.rejection_reasons) = reasons
    /\ Len(ctx.rejection_reasons) = Cardinality(reasons)

\* C23: a ban record of a guild that is gone or below the size threshold when
\* it is read is skipped: the BannedUserRejector does not raise, and it
\* records the reasons of the other ban records.
C23_AsClaimed ==
    (Ran("BannedUserRejector") /\ StaleBans # <<>>) =>
        /\ owner_errors = <<>>
        /\ RejectedExactlyFor(BanReasons(ValidBans))

\* C24: whatever ban records are returned, the BannedUserRejector records one
\* rejection reason for each distinct reason text of the records it has to
\* count, the generic reason once when there are such records but none has a
\* text, and nothing when there is no record.
C24_AsClaimed ==
    Ran("BannedUserRejector") => RejectedExactlyFor(BanReasons(ValidBans))

\* The names of the member: the current name and the stored ones.
NamesOf(member) ==
    (IF member.name = Nothing THEN {} ELSE {member.name[1]}) \cup member.past_names

\* The pattern is the whole value, or occurs in it, letter case ignored.
IsWhole(p, s) == Casefold(s) = Casefold(p)
IsPart(p, s) ==
    \E a \in 0..Len(s) : \E b \in a..Len(s) :
        Casefold(SubSeq(s, a + 1, b)) = Casefold(p)

\* C25: a StringFilterRejector records one rejection for each name and filter
\* such that, under full_match, the filter's pattern matches the whole name
\* and, without full_match, the pattern matches some part of the name, letter
\* case ignored; under full_match a name that only contains the pattern, or
\* only begins with it, is not rejected.
C25_AsClaimed ==
    Ran("StringFilterRejector") =>
        LET v == chain[1]
            filters == load_list(v.filters)
            hits == {x \in NamesOf(ctx.member) \X (1..Len(filters)) :
                        IF v.full_match THEN IsWhole(filters[x[2]], x[1])
                        ELSE IsPart(filters[x[2]], x[1])}
        IN Len(ctx.rejection_reasons) = Cardinality(hits)

\* The validator at index i reads ctx.usernames.
ReadsUsernames(i) ==
    chain[i].cls \in {"StringFilterRejector", "BannedUsernameRejector"}

\* C26: in one context the storage query for the usernames runs at most once:
\* the first validator that reads ctx.usernames computes the current name
\* together with the stored names, also when that set is empty, and every
\* later read returns the same set without a query.
C26_UsernamesComputedOnce ==
    [][/\ ctx'.queries <= 1
       /\ ctx.usernames # Nothing =>
             /\ ctx'.usernames = ctx.usernames
             /\ ctx'.queries = ctx.queries
       /\ (pos' = pos + 1 /\ ReadsUsernames(pos)) =>
             /\ ctx'.usernames = Some(NamesOf(ctx.member))
             /\ ctx'.queries = 1
       /\ (pos' = pos + 1 /\ ~ReadsUsernames(pos)) =>
             ctx'.usernames = ctx.usernames
      ]_vars

\* Three validators have read the usernames of a member that has none: the
\* empty set was computed once.
C26_Witness ==
    /\ pos = 4
    /\ \A i \in 1..3 : ReadsUsernames(i)
    /\ ctx.usernames = Some({})
    /\ ctx.queries = 1

----------------------------------------------------------------------------
\* purge_guild while members of the guild are being verified.

\* ValidationContext.apply_role for a member of the purged guild, awaited by
\* another handler (an approve reaction, or on_join) while the purge runs: the
\* member who lacks the validation role is given it.
ApplyRole(i) ==
    /\ i \in DOMAIN p_members
    /\ i \notin kicks
    /\ ShouldAddRole(NewContext(p_members[i], guild_role), p_members[i].roles)
    /\ p_members' = [p_members EXCEPT ![i].roles = @ \cup {guild_role}]
    /\ UNCHANGED <<chainVars, guildVars, joinVars, cmdVars, reactVars, eventVars,
                   guild_role, can_kick, p_pc, p_dry_run, p_cutoff, p_i, p_count,
                   p_tasks, p_result, p_counted, dms, kicks, kick_calls, p_ended>>

\* A guild of unverified members where the purge can run.
InitPurgeRace ==
    /\ InitPurge
    /\ guild_role # None
    /\ can_kick
    /\ p_members \in SeqsUpTo(StaleKinds, MaxMembers)

NextPurgeRace ==
    \/ NextPurge
    \/ \E i \in 1..MaxMembers : ApplyRole(i)

SpecPurgeRace == InitPurgeRace /\ [][NextPurgeRace]_vars

\* C27: a member kicked by the purge did not hold the validation role when
\* the kick was performed: whoever is verified after the scan has examined
\* them and before their kick is not removed.
C27_AsClaimed ==
    \A i \in kicks : guild_role \notin p_members[i].roles

\* The steps that deliver the join event and a member update.
JoinEvent == joined = Nothing /\ joined' # Nothing
UpdateEvent == Len(updates') = Len(updates) + 1

\* C28: on_join is called for the member who joins not pending, not for the
\* member who joins pending, for that member by the update that takes pending
\* from true to false, and by no other update or step; so it has been called
\* once for a member who is no longer pending and never for one who still is.
\* Where validation is enabled the call starts the member's evaluation.
C28_EvaluatedOnce ==
    [][/\ JoinEvent =>
             on_join_calls' = IF joined'[1].pending THEN on_join_calls
                              ELSE on_join_calls + 1
       /\ UpdateEvent =>
             on_join_calls' = IF joined[1].pending /\ ~joined'[1].pending
                              THEN on_join_calls + 1
                              ELSE on_join_calls
       /\ ~(JoinEvent \/ UpdateEvent) => on_join_calls' = on_join_calls
       /\ on_join_calls' = IF joined' # Nothing /\ ~joined'[1].pending
                            THEN 1 ELSE 0
       /\ (on_join_calls' > on_join_calls /\ ~NotEnabled) =>
             /\ pc' = "validating"
             /\ handler' = "on_join"
             /\ ctx'.member = joined'[1]
             /\ invoked' = <<>>
      ]_vars

\* A member joined pending and was left alone by an update that kept it
\* pending; the update that ended pending has started the evaluation.
C28_Witness ==
    /\ updates = <<TRUE, FALSE>>
    /\ on_join_calls = 1
    /\ pc = "validating"
    /\ handler = "on_join"
    /\ pos = 1

\* C21: an authorized approve reaction runs no validator: it gives the trust
\* role to its target when a role is configured and the target lacks it, also
\* when the audit message says that the automatic evaluation rejected the
\* target, dispatches verify_accept (the fresh context is approved) and leaves
\* one note that names the approving moderator and the target; nobody else's
\* roles change. Only when Discord refuses add_roles is the role not given.
C21_ApproveGrantsRole ==
    [][(/\ Handles
        /\ ~Stray(Payload)
        /\ Authorized(Payload)
        /\ Payload.emoji = APPROVE_REACTION) =>
          LET p == Payload
              t == TargetOf(p)
              role == config[1].role_id
              lacks == role # None /\ role \notin r_roles[t]
          IN /\ UNCHANGED <<chainVars, joinVars>>
             /\ \A u \in ReactionTargets \ {t} : r_roles'[u] = r_roles[u]
             /\ ~(lacks /\ p.answer = "forbidden") =>
                   /\ r_roles'[t] = IF lacks THEN r_roles[t] \cup {role}
                                    ELSE r_roles[t]
                   /\ r_notes' = Append(r_notes,
                                        Note(APPROVE_REACTION, TRUE, p.by, t))
                   /\ r_dispatched' = Append(r_dispatched, <<"verify_accept", t>>)
      ]_vars

\* A moderator's approve reaction gave the role to the member the automatic
\* evaluation had rejected.
C21_Witness ==
    /\ r_outcome = "acted"
    /\ r_payload[1].emoji = APPROVE_REACTION
    /\ ~r_payload[1].message.verified
    /\ config[1].role_id \in r_roles[7]
    /\ r_notes[Len(r_notes)] = Note(APPROVE_REACTION, TRUE, r_payload[1].by, 7)
    /\ invoked = <<>>

====
